---- MODULE Spec2Model ----
(***************************************************************************)
(* Code to Play: the unlock/progress engine (GameManager over the          *)
(* StorageManager's Memento), the game webview sessions that charge play   *)
(* credits (WebviewManager) and the line-change detector (CodeTracker).    *)
(*                                                                         *)
(* A Memento slot is modelled as a set: {} when the key is absent, {v}     *)
(* when it holds v.  Memento.update takes effect at the call, so a handler *)
(* that runs without interruption is one action here.                      *)
(* GameState.lastPlayed (a wall-clock stamp) is not modelled.              *)
(***************************************************************************)
EXTENDS Integers, Sequences, FiniteSets, TLC

\* ------------------------------------------------------------------ bounds
MaxThreshold == 3
MaxPlaysPerUnlock == 1
MaxInitialPlays == 0
MaxDelta == 2
MaxScore == 1
MaxTotalPlays == 2
MaxTotalLines == 3
MaxDebt == 1
MaxCharges == 1
MaxLines == 2
MaxUnitLines == 2
MaxInflight == 2
MaxBatch == 2
MaxMilestoneThreshold == 4
MaxTokens == 2
MaxTicks == 5

MaxCounted == 2

\* ------------------------------------------------------------------ values
\* DEFAULT_CONFIG.unlock.initialPlays
DefaultInitialPlays == 5

\* a game of the registry (DebugSnakeGame.id), and an id that is never registered
GameIds == {"debug-snake"}
Ghost == "ghost"
AllIds == GameIds \cup {Ghost}
Global == "__global__"

\* endPlay's optional score: NoScore is `undefined`
NoScore == 0 - 1
Scores == 0..MaxScore
NoTrack == 0 - 1

\* DEFAULT_CONFIG.unlock.linesToUnlock and .playsPerUnlock
DefaultLinesToUnlock == 50
DefaultPlaysPerUnlock == 5

\* TRACKEDEXTENSION (constants/TrackedExtensions), as far as the tests show it
TRACKEDEXTENSION == { <<".", "t", "s">>, <<".", "j", "s">> }

\* ExtensionConfig (showUnlockNotifications and debounceTime left out)
DEFAULT_CONFIG ==
    [ unlock |-> [ initialPlays |-> DefaultInitialPlays,
                   linesToUnlock |-> DefaultLinesToUnlock,
                   playsPerUnlock |-> DefaultPlaysPerUnlock,
                   countMeaningfulLinesOnly |-> TRUE ],
      trackAllFiles |-> FALSE,
      trackedExtensions |-> TRACKEDEXTENSION ]

\* the configurations a user puts in force: the unlock mechanics ...
UnlockConfigs ==
    { [DEFAULT_CONFIG EXCEPT !.unlock.initialPlays = i,
                             !.unlock.linesToUnlock = l,
                             !.unlock.playsPerUnlock = p] :
        i \in 0..MaxInitialPlays, l \in 2..MaxThreshold, p \in 0..MaxPlaysPerUnlock }

\* ... and what the tracker counts and follows
TrackerConfigs ==
    { [DEFAULT_CONFIG EXCEPT !.unlock.countMeaningfulLinesOnly = m,
                             !.trackAllFiles = a] :
        m \in BOOLEAN, a \in BOOLEAN }

DEFAULT_GAME_STATE == [highScore |-> 0, totalPlays |-> 0]

DEFAULT_GLOBAL_PLAY_STATE ==
    [playsRemaining |-> DefaultInitialPlays, linesWritten |-> 0, isUnlocked |-> TRUE]

\* GameEvent
UNLOCKED == "game:unlocked"
LOCKED == "game:locked"
PLAY_ENDED == "game:playEnded"
CODE_WRITTEN == "code:written"
PROGRESS_UPDATED == "progress:updated"

VARIABLES
    games,              \* GameManager.games: the ids in the catalog
    catalog,            \* GameManager.games: the record registered for each id
    config,             \* GameManager.config
    memGameState,       \* Memento: codeToPlay.gameState.<id>, a slot per id
    memGlobalPlayState, \* Memento: codeToPlay.globalPlayState
    memTotalLines,      \* Memento: codeToPlay.totalLinesWritten
    memConfig,          \* Memento: codeToPlay.config
    activePanels,       \* WebviewManager.activePanels: the ids with an open panel
    events,             \* what the last call fired on onGameEvent, in order
    lastAttempt,        \* the last call if it was attemptPlay: its id and result
    charges,            \* history: endPlay calls made for the session of each id
    fed,                \* history: lines fed since Locked{0} was entered, or NoTrack
    docText,            \* the editor: the text of each document
    documentCache,      \* CodeTracker.documentCache, a slot per document
    debounceTimer,      \* CodeTracker.debounceTimer: {} is null
    trackerConfig,      \* CodeTracker.config
    codeWritten,        \* what the last call fired on onCodeWritten, in order
    lastSignal,         \* history: the signal the tracker handled last
    inflight,           \* the engine calls suspended at an await, a slot per call
    ledger,             \* history: the calls begun since no call was in flight
    observed,           \* history: the play state stored when each of `events` fired
    failure,            \* history: the call whose storage write was just rejected
    windowBase,         \* history: the last debounce window: its unit, the unit's
                        \* cache slot when it opened, whether a notification
                        \* re-armed it, and whether it is open, elapsed or was
                        \* cancelled by the save handled last
    returned,           \* the last call of a method of the line classifier: its
                        \* arguments and the value it returned
    storageLog,         \* history: the last exportData: the store it read, the
                        \* text it returned and the storage calls made since
    trackedGameId,      \* StatusBarManager.trackedGameId: {} is null
    statusBarItem,      \* StatusBarManager.statusBarItem: what it shows, {} before
                        \* the manager is constructed
    debugSnake,         \* Debug Snake: the variables of the game's script
    snakeTicks,         \* history: the calls of the script's update so far
    appliedVelocity     \* history: the velocity the last update of the running
                        \* game moved the head by, {} before its first update

engineVars == <<games, catalog, config, memGameState, memGlobalPlayState, memTotalLines,
                memConfig, activePanels, events, lastAttempt, charges, fed>>

trackerVars == <<docText, documentCache, debounceTimer, trackerConfig, codeWritten,
                 lastSignal, windowBase>>

asyncVars == <<inflight, ledger, observed, failure>>

statusBarVars == <<trackedGameId, statusBarItem>>

snakeVars == <<debugSnake, snakeTicks, appliedVelocity>>

extVars == <<storageLog, statusBarVars, snakeVars>>

vars == <<engineVars, trackerVars, asyncVars, returned, extVars>>

\* ------------------------------------------------------------------ StorageManager
getGameState(gameId) ==
    IF memGameState[gameId] = {} THEN DEFAULT_GAME_STATE
    ELSE CHOOSE s \in memGameState[gameId] : TRUE

getGlobalPlayState ==
    IF memGlobalPlayState = {} THEN DEFAULT_GLOBAL_PLAY_STATE
    ELSE CHOOSE s \in memGlobalPlayState : TRUE

getTotalLinesWritten ==
    IF memTotalLines = {} THEN 0 ELSE CHOOSE n \in memTotalLines : TRUE

getConfig ==
    IF memConfig = {} THEN DEFAULT_CONFIG ELSE CHOOSE c \in memConfig : TRUE

\* ------------------------------------------------------------------ GameManager
Event(e, gameId, data) == [event |-> e, gameId |-> gameId, data |-> data]

NoAttempt == [gameId |-> Global, result |-> [success |-> FALSE, tag |-> "none", lines |-> 0]]

Max(a, b) == IF a >= b THEN a ELSE b

getRemainingLinesToUnlock ==
    LET globalState == getGlobalPlayState
    IN  IF globalState.isUnlocked THEN 0
        ELSE Max(0, config.unlock.linesToUnlock - globalState.linesWritten)

\* getUnlockProgress: the percentage as the fraction <<numerator, denominator>>
getUnlockProgress ==
    LET globalState == getGlobalPlayState
        linesToUnlock == config.unlock.linesToUnlock
    IN  IF globalState.isUnlocked THEN <<100, 1>>
        ELSE IF globalState.linesWritten * 100 >= 100 * linesToUnlock THEN <<100, 1>>
        ELSE <<globalState.linesWritten * 100, linesToUnlock>>

\* attemptPlay with the Locked message stating the whole threshold
attemptPlayStatesThreshold(gameId) ==
    LET globalState == getGlobalPlayState
    IN  IF gameId \notin games
        THEN [success |-> FALSE, tag |-> "NotFound", lines |-> 0]
        ELSE IF ~globalState.isUnlocked
        THEN [success |-> FALSE, tag |-> "Locked", lines |-> config.unlock.linesToUnlock]
        ELSE IF globalState.playsRemaining <= 0
        THEN [success |-> FALSE, tag |-> "NoCreditsRemaining",
              lines |-> config.unlock.linesToUnlock]
        ELSE [success |-> TRUE, tag |-> "ok", lines |-> 0]

\* The result of attemptPlay; `tag` names the failure and `lines` is the number
\* its message states.
attemptPlay(gameId) ==
    LET globalState == getGlobalPlayState
    IN  IF gameId \notin games
        THEN [success |-> FALSE, tag |-> "NotFound", lines |-> 0]
        ELSE IF ~globalState.isUnlocked
        THEN [success |-> FALSE, tag |-> "Locked", lines |-> getRemainingLinesToUnlock]
        ELSE IF globalState.playsRemaining <= 0
        THEN [success |-> FALSE, tag |-> "NoCreditsRemaining",
              lines |-> config.unlock.linesToUnlock]
        ELSE [success |-> TRUE, tag |-> "ok", lines |-> 0]

\* endPlay locking one play early
endPlayLocksEarly(gameId, score) ==
    LET gameState == getGameState(gameId)
        globalState == getGlobalPlayState
        newGameState ==
            [ highScore |-> IF score # NoScore /\ score > gameState.highScore
                            THEN score ELSE gameState.highScore,
              totalPlays |-> gameState.totalPlays + 1 ]
        newPlaysRemaining == globalState.playsRemaining - 1
        newGlobalState ==
            IF newPlaysRemaining <= 1
            THEN [ playsRemaining |-> newPlaysRemaining, linesWritten |-> 0,
                   isUnlocked |-> FALSE ]
            ELSE [globalState EXCEPT !.playsRemaining = newPlaysRemaining]
    IN  /\ memGameState' = [memGameState EXCEPT ![gameId] = {newGameState}]
        /\ memGlobalPlayState' = {newGlobalState}
        /\ events' =
              (IF newPlaysRemaining <= 1
               THEN <<Event(LOCKED, Global, newGlobalState)>> ELSE << >>)
              \o <<Event(PLAY_ENDED, gameId, [score |-> score])>>

\* endPlay recording the score of the last play as the high score
endPlayKeepsLastScore(gameId, score) ==
    LET gameState == getGameState(gameId)
        globalState == getGlobalPlayState
        newGameState ==
            [ highScore |-> IF score # NoScore THEN score ELSE gameState.highScore,
              totalPlays |-> gameState.totalPlays + 1 ]
        newPlaysRemaining == globalState.playsRemaining - 1
        newGlobalState ==
            IF newPlaysRemaining = 0
            THEN [ playsRemaining |-> newPlaysRemaining, linesWritten |-> 0,
                   isUnlocked |-> FALSE ]
            ELSE [globalState EXCEPT !.playsRemaining = newPlaysRemaining]
    IN  /\ memGameState' = [memGameState EXCEPT ![gameId] = {newGameState}]
        /\ memGlobalPlayState' = {newGlobalState}
        /\ events' =
              (IF newPlaysRemaining = 0
               THEN <<Event(LOCKED, Global, newGlobalState)>> ELSE << >>)
              \o <<Event(PLAY_ENDED, gameId, [score |-> score])>>

\* endPlay: the statistics of the game, then the global credit and the lock.
\* endPlay taking the last credit without locking
endPlayWithoutLock(gameId, score) ==
    LET gameState == getGameState(gameId)
        globalState == getGlobalPlayState
        newGameState ==
            [ highScore |-> IF score # NoScore /\ score > gameState.highScore
                            THEN score ELSE gameState.highScore,
              totalPlays |-> gameState.totalPlays + 1 ]
        newGlobalState ==
            [globalState EXCEPT !.playsRemaining = globalState.playsRemaining - 1]
    IN  /\ memGameState' = [memGameState EXCEPT ![gameId] = {newGameState}]
        /\ memGlobalPlayState' = {newGlobalState}
        /\ events' = <<Event(PLAY_ENDED, gameId, [score |-> score])>>

endPlay(gameId, score) ==
    LET gameState == getGameState(gameId)
        globalState == getGlobalPlayState
        newGameState ==
            [ highScore |-> IF score # NoScore /\ score > gameState.highScore
                            THEN score ELSE gameState.highScore,
              totalPlays |-> gameState.totalPlays + 1 ]
        newPlaysRemaining == globalState.playsRemaining - 1
        newGlobalState ==
            IF newPlaysRemaining = 0
            THEN [ playsRemaining |-> newPlaysRemaining, linesWritten |-> 0,
                   isUnlocked |-> FALSE ]
            ELSE [globalState EXCEPT !.playsRemaining = newPlaysRemaining]
    IN  /\ memGameState' = [memGameState EXCEPT ![gameId] = {newGameState}]
        /\ memGlobalPlayState' = {newGlobalState}
        /\ events' =
              (IF newPlaysRemaining = 0
               THEN <<Event(LOCKED, Global, newGlobalState)>> ELSE << >>)
              \o <<Event(PLAY_ENDED, gameId, [score |-> score])>>

\* updateGlobalProgress unlocking only above the threshold
updateGlobalProgressStrict(linesWritten) ==
    LET globalState == getGlobalPlayState
        newLinesWritten == globalState.linesWritten + linesWritten
        newState == [ isUnlocked |-> TRUE,
                      playsRemaining |-> config.unlock.playsPerUnlock,
                      linesWritten |-> 0 ]
    IN  IF globalState.isUnlocked
        THEN [slot |-> memGlobalPlayState, fired |-> << >>]
        ELSE IF newLinesWritten > config.unlock.linesToUnlock
        THEN [ slot |-> {newState},
               fired |-> <<Event(UNLOCKED, Global, newState)>> ]
        ELSE [ slot |-> {[globalState EXCEPT !.linesWritten = newLinesWritten]},
               fired |-> <<Event(PROGRESS_UPDATED, Global,
                               [ linesWritten |-> newLinesWritten,
                                 linesRequired |-> config.unlock.linesToUnlock,
                                 progress |-> <<newLinesWritten,
                                                config.unlock.linesToUnlock>> ])>> ]

\* updateGlobalProgress without the early return while unlocked
updateGlobalProgressAlways(linesWritten) ==
    LET globalState == getGlobalPlayState
        newLinesWritten == globalState.linesWritten + linesWritten
        newState == [ isUnlocked |-> TRUE,
                      playsRemaining |-> config.unlock.playsPerUnlock,
                      linesWritten |-> 0 ]
    IN  IF newLinesWritten >= config.unlock.linesToUnlock
        THEN [ slot |-> {newState},
               fired |-> <<Event(UNLOCKED, Global, newState)>> ]
        ELSE [ slot |-> {[globalState EXCEPT !.linesWritten = newLinesWritten]},
               fired |-> <<Event(PROGRESS_UPDATED, Global,
                               [ linesWritten |-> newLinesWritten,
                                 linesRequired |-> config.unlock.linesToUnlock,
                                 progress |-> <<newLinesWritten,
                                                config.unlock.linesToUnlock>> ])>> ]

\* updateGlobalProgress announcing the progress on the unlocking delta too
updateGlobalProgressAnnouncesBoth(linesWritten) ==
    LET globalState == getGlobalPlayState
        newLinesWritten == globalState.linesWritten + linesWritten
        newState == [ isUnlocked |-> TRUE,
                      playsRemaining |-> config.unlock.playsPerUnlock,
                      linesWritten |-> 0 ]
        progressed == Event(PROGRESS_UPDATED, Global,
                            [ linesWritten |-> newLinesWritten,
                              linesRequired |-> config.unlock.linesToUnlock,
                              progress |-> <<newLinesWritten,
                                             config.unlock.linesToUnlock>> ])
    IN  IF globalState.isUnlocked
        THEN [slot |-> memGlobalPlayState, fired |-> << >>]
        ELSE IF newLinesWritten >= config.unlock.linesToUnlock
        THEN [ slot |-> {newState},
               fired |-> <<progressed, Event(UNLOCKED, Global, newState)>> ]
        ELSE [ slot |-> {[globalState EXCEPT !.linesWritten = newLinesWritten]},
               fired |-> <<progressed>> ]

\* updateGlobalProgress that only accumulates the lines and never unlocks
updateGlobalProgressAccumulates(linesWritten) ==
    LET globalState == getGlobalPlayState
        newLinesWritten == globalState.linesWritten + linesWritten
    IN  IF globalState.isUnlocked
        THEN [slot |-> memGlobalPlayState, fired |-> << >>]
        ELSE [ slot |-> {[globalState EXCEPT !.linesWritten = newLinesWritten]},
               fired |-> <<Event(PROGRESS_UPDATED, Global,
                               [ linesWritten |-> newLinesWritten,
                                 linesRequired |-> config.unlock.linesToUnlock,
                                 progress |-> <<newLinesWritten,
                                                config.unlock.linesToUnlock>> ])>> ]

\* updateGlobalProgress: the slot it leaves and the events it fires.
updateGlobalProgress(linesWritten) ==
    LET globalState == getGlobalPlayState
        newLinesWritten == globalState.linesWritten + linesWritten
        newState == [ isUnlocked |-> TRUE,
                      playsRemaining |-> config.unlock.playsPerUnlock,
                      linesWritten |-> 0 ]
    IN  IF globalState.isUnlocked
        THEN [slot |-> memGlobalPlayState, fired |-> << >>]
        ELSE IF newLinesWritten >= config.unlock.linesToUnlock
        THEN [ slot |-> {newState},
               fired |-> <<Event(UNLOCKED, Global, newState)>> ]
        ELSE [ slot |-> {[globalState EXCEPT !.linesWritten = newLinesWritten]},
               fired |-> <<Event(PROGRESS_UPDATED, Global,
                               [ linesWritten |-> newLinesWritten,
                                 linesRequired |-> config.unlock.linesToUnlock,
                                 progress |-> <<newLinesWritten,
                                                config.unlock.linesToUnlock>> ])>> ]

\* handleCodeWritten adding to the total only the lines that count as progress
handleCodeWrittenWhileLocked(netChange) ==
    LET r == updateGlobalProgress(netChange)
    IN  /\ memTotalLines' = IF getGlobalPlayState.isUnlocked THEN memTotalLines
                            ELSE {getTotalLinesWritten + netChange}
        /\ memGlobalPlayState' = r.slot
        /\ events' = r.fired \o <<Event(CODE_WRITTEN, Global, [netChange |-> netChange])>>

handleCodeWritten(netChange) ==
    LET r == updateGlobalProgress(netChange)
    IN  /\ memTotalLines' = {getTotalLinesWritten + netChange}
        /\ memGlobalPlayState' = r.slot
        /\ events' = r.fired \o <<Event(CODE_WRITTEN, Global, [netChange |-> netChange])>>

\* ------------------------------------------------------------------ CodeTracker
\* A text is the sequence of its characters; NL separates its lines.
NL == "\n"

\* the lines the documents are made of: an empty line, a line of code, a comment
Lines == { << >>, <<"x">>, <<"/", "/">> }

RECURSIVE Join(_)
Join(ls) == IF Len(ls) = 1 THEN ls[1] ELSE ls[1] \o <<NL>> \o Join(Tail(ls))

Texts == { Join(ls) : ls \in UNION { [1..n -> Lines] : n \in 1..MaxLines } }

\* the documents of the editor
DocTs == [ uri |-> "file:///test/file.ts",
           fileName |-> <<"f", ".", "t", "s">>,
           languageId |-> "typescript",
           isUntitled |-> FALSE ]

DocJs == [ uri |-> "file:///test/file.js",
           fileName |-> <<"f", ".", "j", "s">>,
           languageId |-> "javascript",
           isUntitled |-> FALSE ]

Docs == {DocTs, DocJs}

\* a saved text file, outside the tracked extensions, and a document never saved
DocTxt == [ uri |-> "file:///test/file.txt",
            fileName |-> <<"f", ".", "t", "x", "t">>,
            languageId |-> "plaintext",
            isUntitled |-> FALSE ]

DocUntitled == [ uri |-> "untitled:Untitled-1",
                 fileName |-> <<"U", "-", "1">>,
                 languageId |-> "plaintext",
                 isUntitled |-> TRUE ]

AllDocs == Docs \cup {DocTxt, DocUntitled}

\* the texts of two documents edited side by side: n lines of code, none for n = 0
RECURSIVE CodeLines(_)
CodeLines(n) == IF n = 0 THEN << >> ELSE IF n = 1 THEN <<"x">>
                ELSE <<"x", NL>> \o CodeLines(n - 1)

UnitTexts == { CodeLines(n) : n \in 0..MaxUnitLines }

\* history: the signal the tracker handled last
NoSignal == [kind |-> "none", unit |-> {}]
Signal(kind, document) == [kind |-> kind, unit |-> {document}]

\* String.prototype.split('\n')
RECURSIVE splitFrom(_, _, _)
splitFrom(text, i, cur) ==
    IF i > Len(text) THEN <<cur>>
    ELSE IF text[i] = NL THEN <<cur>> \o splitFrom(text, i + 1, << >>)
    ELSE splitFrom(text, i + 1, Append(cur, text[i]))

split(text) == splitFrom(text, 1, << >>)

\* String.prototype.trim
IsSpace(c) == c \in {" ", "\t"}

RECURSIVE trimStart(_)
trimStart(line) ==
    IF line # << >> /\ IsSpace(Head(line)) THEN trimStart(Tail(line)) ELSE line

RECURSIVE trimEnd(_)
trimEnd(line) ==
    IF line # << >> /\ IsSpace(line[Len(line)])
    THEN trimEnd(SubSeq(line, 1, Len(line) - 1)) ELSE line

trim(line) == trimEnd(trimStart(line))

startsWith(line, prefix) ==
    Len(line) >= Len(prefix) /\ SubSeq(line, 1, Len(prefix)) = prefix

endsWith(name, suffix) ==
    Len(name) >= Len(suffix)
    /\ SubSeq(name, Len(name) - Len(suffix) + 1, Len(name)) = suffix

\* the prefixes the patterns of getCommentPatterns match
getCommentPatterns(languageId) ==
    (IF languageId \in {"javascript", "typescript", "java", "cpp", "c", "csharp",
                        "go", "rust", "php"}
     THEN { <<"/", "/">>, <<"/", "*">>, <<"*">> } ELSE {})
    \cup (IF languageId \in {"python", "ruby", "shellscript", "powershell"}
          THEN { <<"#">> } ELSE {})
    \cup (IF languageId \in {"html", "xml", "markdown"}
          THEN { <<"<", "!", "-", "-">> } ELSE {})
    \cup (IF languageId \in {"css", "scss", "less"}
          THEN { <<"/", "*">> } ELSE {})

\* isLineMeaningful with a class of brackets only, [{}\[\]()]
isLineMeaningfulBracketsOnly(line, languageId) ==
    IF Len(line) = 0 THEN FALSE
    ELSE IF Len(line) = 1 /\ line[1] \in {"{", "}", "[", "]", "(", ")"}
    THEN FALSE
    ELSE ~\E pattern \in getCommentPatterns(languageId) : startsWith(line, pattern)

isLineMeaningful(line, languageId) ==
    IF Len(line) = 0 THEN FALSE
    ELSE IF Len(line) = 1 /\ line[1] \in {"{", "}", "[", "]", "(", ")", ";", ","}
    THEN FALSE
    ELSE ~\E pattern \in getCommentPatterns(languageId) : startsWith(line, pattern)

\* countMeaningfulLines classifying the lines as they are, untrimmed
countMeaningfulLinesUntrimmed(lines, languageId) ==
    Cardinality({ i \in 1..Len(lines) : isLineMeaningful(lines[i], languageId) })

countMeaningfulLines(lines, languageId) ==
    Cardinality({ i \in 1..Len(lines) : isLineMeaningful(trim(lines[i]), languageId) })

\* calculateLineChanges reporting the lines of both texts as added and deleted
calculateLineChangesWholeTexts(oldContent, newContent, languageId) ==
    LET oldLines == split(oldContent)
        newLines == split(newContent)
        oldMeaningfulCount == countMeaningfulLines(oldLines, languageId)
        newMeaningfulCount == countMeaningfulLines(newLines, languageId)
        netChange == Len(newLines) - Len(oldLines)
        meaningfulNetChange == newMeaningfulCount - oldMeaningfulCount
    IN  [ linesAdded |-> Len(newLines),
          linesDeleted |-> Len(oldLines),
          netChange |-> IF trackerConfig.unlock.countMeaningfulLinesOnly
                        THEN meaningfulNetChange ELSE netChange,
          isMeaningful |-> meaningfulNetChange > 0,
          languageId |-> languageId ]

\* calculateLineChanges reporting the raw difference under every configuration
calculateLineChangesRaw(oldContent, newContent, languageId) ==
    LET oldLines == split(oldContent)
        newLines == split(newContent)
        oldMeaningfulCount == countMeaningfulLines(oldLines, languageId)
        newMeaningfulCount == countMeaningfulLines(newLines, languageId)
        netChange == Len(newLines) - Len(oldLines)
        meaningfulNetChange == newMeaningfulCount - oldMeaningfulCount
    IN  [ linesAdded |-> Max(0, netChange),
          linesDeleted |-> Max(0, 0 - netChange),
          netChange |-> netChange,
          isMeaningful |-> meaningfulNetChange > 0,
          languageId |-> languageId ]

calculateLineChanges(oldContent, newContent, languageId) ==
    LET oldLines == split(oldContent)
        newLines == split(newContent)
        oldMeaningfulCount == countMeaningfulLines(oldLines, languageId)
        newMeaningfulCount == countMeaningfulLines(newLines, languageId)
        netChange == Len(newLines) - Len(oldLines)
        meaningfulNetChange == newMeaningfulCount - oldMeaningfulCount
    IN  [ linesAdded |-> Max(0, netChange),
          linesDeleted |-> Max(0, 0 - netChange),
          netChange |-> IF trackerConfig.unlock.countMeaningfulLinesOnly
                        THEN meaningfulNetChange ELSE netChange,
          isMeaningful |-> meaningfulNetChange > 0,
          languageId |-> languageId ]

shouldTrackDocument(document) ==
    \/ trackerConfig.trackAllFiles
    \/ \E ext \in trackerConfig.trackedExtensions : endsWith(document.fileName, ext)

\* `!cachedContent`: the entry is missing, or it is the empty string
notCached(slot) == slot = {} \/ slot = {<< >>}

\* processDocumentChange firing every comparison's change
processDocumentChangeFiresAll(document) ==
    LET currentContent == docText[document]
        cachedSlot == documentCache[document]
        cachedContent == CHOOSE t \in cachedSlot : TRUE
        change == calculateLineChanges(cachedContent, currentContent,
                                       document.languageId)
    IN  /\ documentCache' = [documentCache EXCEPT ![document] = {currentContent}]
        /\ codeWritten' = IF notCached(cachedSlot) THEN << >> ELSE <<change>>

\* processDocumentChange, reading the text the document has now
processDocumentChange(document) ==
    LET currentContent == docText[document]
        cachedSlot == documentCache[document]
        cachedContent == CHOOSE t \in cachedSlot : TRUE
        change == calculateLineChanges(cachedContent, currentContent,
                                       document.languageId)
    IN  /\ documentCache' = [documentCache EXCEPT ![document] = {currentContent}]
        /\ codeWritten' =
              IF notCached(cachedSlot) THEN << >>
              ELSE IF change.isMeaningful /\ change.netChange > 0
              THEN <<change>> ELSE << >>

\* ------------------------------------------------------------------ classifier calls
\* the language identifiers getCommentPatterns names, and one it does not
CFamilyIds == {"javascript", "typescript", "java", "cpp", "c", "csharp", "go",
               "rust", "php"}
HashFamilyIds == {"python", "ruby", "shellscript", "powershell"}
MarkupIds == {"html", "xml", "markdown"}
StyleIds == {"css", "scss", "less"}
UnknownId == "plaintext"
LanguageIds == CFamilyIds \cup HashFamilyIds \cup MarkupIds \cup StyleIds \cup {UnknownId}

\* one identifier of each family
FamilyIds == {"typescript", "python", "html", "css", UnknownId}

\* the characters of the class [{}\[\]();,]
Punctuation == {"{", "}", "[", "]", "(", ")", ";", ","}

\* what the lines given to the classifier are made of: white space, the
\* comment markers, the punctuation characters, a character of code
Markers == { <<"/", "/">>, <<"/", "*">>, <<"*">>, <<"#">>, <<"<", "!", "-", "-">> }
Tokens == { <<" ">>, <<"\t">>, <<"x">> } \cup Markers \cup { <<c>> : c \in Punctuation }

RECURSIVE TokenLines(_)
TokenLines(n) ==
    IF n = 0 THEN { << >> }
    ELSE LET shorter == TokenLines(n - 1)
         IN  shorter \cup { l \o t : l \in shorter, t \in Tokens }

ClassifierLines == TokenLines(MaxTokens)

\* the lines of the arrays given to countMeaningfulLines: a token or nothing,
\* flush or indented
CountedLines ==
    { indent \o t : indent \in { << >>, <<" ", "\t">> },
                    t \in {t \in Tokens : ~IsSpace(t[1])} \cup { << >> } }

CountedArrays == UNION { [1..n -> CountedLines] : n \in 1..MaxCounted }

NoCall == [fn |-> "none"]

\* isLineMeaningful(line, languageId) is called
callIsLineMeaningful(line, languageId) ==
    /\ returned = NoCall
    /\ returned' = [ fn |-> "isLineMeaningful", line |-> line,
                     languageId |-> languageId,
                     value |-> isLineMeaningful(line, languageId) ]
    /\ UNCHANGED <<engineVars, trackerVars, asyncVars, extVars>>

\* countMeaningfulLines(lines, languageId) is called
callCountMeaningfulLines(lines, languageId) ==
    /\ returned = NoCall
    /\ returned' = [ fn |-> "countMeaningfulLines", lines |-> lines,
                     languageId |-> languageId,
                     value |-> countMeaningfulLines(lines, languageId) ]
    /\ UNCHANGED <<engineVars, trackerVars, asyncVars, extVars>>

\* calculateLineChanges(oldContent, newContent, languageId) is called
callCalculateLineChanges(oldContent, newContent, languageId) ==
    /\ returned = NoCall
    /\ returned' = [ fn |-> "calculateLineChanges", oldContent |-> oldContent,
                     newContent |-> newContent, languageId |-> languageId,
                     value |-> calculateLineChanges(oldContent, newContent,
                                                    languageId) ]
    /\ UNCHANGED <<engineVars, trackerVars, asyncVars, extVars>>

\* ------------------------------------------------------------------ engine calls
\* An async method runs to its next await without interruption; a call
\* suspended at an await sits in a slot of `inflight` with its locals.
Calls == 1..MaxInflight

\* the three slots of the store a call can write
Stored == [ game |-> memGameState, global |-> memGlobalPlayState,
            total |-> memTotalLines ]

Idle == [ op |-> "idle", pc |-> "idle", gameId |-> Ghost, score |-> NoScore,
          netChange |-> 0, globalState |-> DEFAULT_GLOBAL_PLAY_STATE,
          before |-> [ game |-> [g \in AllIds |-> {}], global |-> {}, total |-> {} ],
          fired |-> 0, overlapped |-> FALSE ]

\* a call entering its first await
Suspended(op, pc, gameId, score, netChange, globalState) ==
    [ op |-> op, pc |-> pc, gameId |-> gameId, score |-> score,
      netChange |-> netChange, globalState |-> globalState,
      before |-> Stored, fired |-> 0,
      overlapped |-> \E c \in Calls : inflight[c] # Idle ]

\* the calls already in flight when another begins have overlapped with it
Overlap(calls) == [c \in Calls |->
                      IF calls[c] = Idle THEN Idle
                      ELSE [calls[c] EXCEPT !.overlapped = TRUE]]

NoLedger == [ base |-> DEFAULT_GLOBAL_PLAY_STATE, ops |-> << >>, failed |-> FALSE ]

\* history: a call begins; a batch is the calls begun while a call was in flight
Begun(op, netChange) ==
    LET entry == [op |-> op, netChange |-> netChange]
    IN  IF \A c \in Calls : inflight[c] = Idle
        THEN [ base |-> getGlobalPlayState, ops |-> <<entry>>, failed |-> FALSE ]
        ELSE [ledger EXCEPT !.ops = Append(@, entry)]

CanBegin == \/ \A c \in Calls : inflight[c] = Idle
            \/ Len(ledger.ops) < MaxBatch

\* endPlay: the play state it computes from the one it read
endPlayState(globalState) ==
    LET newPlaysRemaining == globalState.playsRemaining - 1
    IN  IF newPlaysRemaining = 0
        THEN [isUnlocked |-> FALSE, playsRemaining |-> 0, linesWritten |-> 0]
        ELSE [globalState EXCEPT !.playsRemaining = newPlaysRemaining]

\* endPlay: the statistics it computes from the ones it read
endPlayGameState(gameState, score) ==
    [ highScore |-> IF score # NoScore /\ score > gameState.highScore
                    THEN score ELSE gameState.highScore,
      totalPlays |-> gameState.totalPlays + 1 ]

\* nothing exported yet
NoExport ==
    [ phase |-> "none",
      store |-> [ game |-> [g \in AllIds |-> {}], global |-> {}, total |-> {},
                  config |-> {} ],
      text |-> [kind |-> "object", entries |-> << >>],
      written |-> << >> ]

InitCalls ==
    /\ inflight = [c \in Calls |-> Idle]
    /\ ledger = NoLedger
    /\ observed = << >>
    /\ failure = {}

\* ------------------------------------------------------------------ Debug Snake
\* the script of the game's page (the drawing and the delay of the loop left out)
TILE_COUNT == 20
INITIAL_SNAKE_LENGTH == 3
INITIAL_SNAKE_X == 10
INITIAL_SNAKE_Y == 10

\* the tiles Math.random draws for the bug: two next to the start, one apart
BugSpots == { [x |-> 11, y |-> 10], [x |-> 10, y |-> 9], [x |-> 15, y |-> 15] }

ArrowKeys == {"ArrowUp", "ArrowDown", "ArrowLeft", "ArrowRight"}
Keys == ArrowKeys \cup {" "}

\* the variables as declared, once init() has run: nothing saved in
\* localStorage, the bug drawn on the tile it is declared on
InitDebugSnake ==
    /\ debugSnake = [ snake |-> << >>,
                      snakeLength |-> INITIAL_SNAKE_LENGTH,
                      snakeX |-> INITIAL_SNAKE_X,
                      snakeY |-> INITIAL_SNAKE_Y,
                      velocityX |-> 0,
                      velocityY |-> 0,
                      bugX |-> 15,
                      bugY |-> 15,
                      score |-> 0,
                      highScore |-> 0,
                      gameLoop |-> {},
                      isRunning |-> FALSE,
                      isPaused |-> FALSE ]
    /\ snakeTicks = 0
    /\ appliedVelocity = {}

\* clearTimeout(gameLoop): the handle stays in gameLoop
clearedLoop(gameLoop) == { [pending |-> FALSE] : handle \in gameLoop }

endGame(s) ==
    [s EXCEPT !.isRunning = FALSE,
              !.isPaused = FALSE,
              !.gameLoop = {},
              !.highScore = IF s.score > s.highScore THEN s.score ELSE s.highScore]

\* placeBug draws until the tile is free of the snake
validPosition(body, spot) == \A i \in 1..Len(body) : body[i] # spot

\* update; `spot` is where placeBug puts the next bug
updateSnake(s, spot) ==
    LET x == s.snakeX + s.velocityX
        y == s.snakeY + s.velocityY
        head == [x |-> x, y |-> y]
        moved == [s EXCEPT !.snakeX = x, !.snakeY = y]
        pushed == Append(s.snake, head)
        body == IF Len(pushed) > s.snakeLength
                THEN SubSeq(pushed, Len(pushed) - s.snakeLength + 1, Len(pushed))
                ELSE pushed
        grown == [moved EXCEPT !.snake = body]
    IN  IF x < 0 \/ x >= TILE_COUNT \/ y < 0 \/ y >= TILE_COUNT THEN endGame(moved)
        ELSE IF \E i \in 1..(Len(body) - 1) : body[i] = head THEN endGame(grown)
        ELSE IF x = s.bugX /\ y = s.bugY
        THEN [grown EXCEPT !.score = @ + 1, !.snakeLength = @ + 1,
                           !.bugX = spot.x, !.bugY = spot.y]
        ELSE grown

\* whether update runs in runGameLoop
loopRuns(s) == s.isRunning /\ ~s.isPaused

runGameLoop(s, spot) ==
    LET cleared == [s EXCEPT !.gameLoop = clearedLoop(@)]
    IN  IF ~loopRuns(s) THEN cleared
        ELSE [updateSnake(cleared, spot) EXCEPT !.gameLoop = {[pending |-> TRUE]}]

startGame(s, spot) ==
    IF s.isRunning THEN s
    ELSE runGameLoop([s EXCEPT !.snake = << >>,
                               !.snakeLength = INITIAL_SNAKE_LENGTH,
                               !.snakeX = INITIAL_SNAKE_X,
                               !.snakeY = INITIAL_SNAKE_Y,
                               !.velocityX = 0,
                               !.velocityY = 0,
                               !.score = 0,
                               !.isPaused = FALSE,
                               !.bugX = spot.x,
                               !.bugY = spot.y,
                               !.isRunning = TRUE], spot)

togglePause(s, spot) ==
    IF ~s.isRunning THEN s
    ELSE LET toggled == [s EXCEPT !.isPaused = ~@]
         IN  IF ~toggled.isPaused THEN runGameLoop(toggled, spot) ELSE toggled

handleKeyPress(s, key, spot) ==
    IF key = " " THEN togglePause(s, spot)
    ELSE IF ~s.isRunning \/ s.isPaused THEN s
    ELSE IF key = "ArrowUp"
    THEN (IF s.velocityY # 1 THEN [s EXCEPT !.velocityX = 0, !.velocityY = -1] ELSE s)
    ELSE IF key = "ArrowDown"
    THEN (IF s.velocityY # -1 THEN [s EXCEPT !.velocityX = 0, !.velocityY = 1] ELSE s)
    ELSE IF key = "ArrowLeft"
    THEN (IF s.velocityX # 1 THEN [s EXCEPT !.velocityX = -1, !.velocityY = 0] ELSE s)
    ELSE (IF s.velocityX # -1 THEN [s EXCEPT !.velocityX = 1, !.velocityY = 0] ELSE s)

\* the tiles a draw of placeBug can end on, were the bug caught now
Draws(s) == { spot \in BugSpots : validPosition(updateSnake(s, spot).snake, spot) }

\* a handler of the page has run: the script's variables after it and, in
\* the history, the update it made, if any, with the velocity it applied
SnakeStep(after, updated, velocity) ==
    /\ debugSnake' = after
    /\ snakeTicks' = IF updated THEN snakeTicks + 1 ELSE snakeTicks
    /\ appliedVelocity' = IF updated THEN {velocity} ELSE appliedVelocity
    /\ UNCHANGED <<returned, storageLog, statusBarVars, engineVars, trackerVars, asyncVars>>

velocityOf(s) == <<s.velocityX, s.velocityY>>

\* the Start and Restart buttons
StartGame ==
    /\ ~debugSnake.isRunning
    /\ snakeTicks < MaxTicks
    /\ \E spot \in BugSpots :
          SnakeStep(startGame(debugSnake, spot), TRUE, <<0, 0>>)

\* the callback of the loop's setTimeout
GameLoopTimer ==
    /\ \E handle \in debugSnake.gameLoop : handle.pending
    /\ snakeTicks < MaxTicks
    /\ \E spot \in Draws(debugSnake) :
          SnakeStep(runGameLoop(debugSnake, spot), loopRuns(debugSnake),
                    velocityOf(debugSnake))

\* the Pause button
TogglePause ==
    /\ debugSnake.isRunning
    /\ snakeTicks < MaxTicks
    /\ \E spot \in Draws(debugSnake) :
          SnakeStep(togglePause(debugSnake, spot), debugSnake.isPaused,
                    velocityOf(debugSnake))

\* the listener of keydown
HandleKeyPress(key) ==
    /\ snakeTicks < MaxTicks
    /\ \E spot \in Draws(debugSnake) :
          SnakeStep(handleKeyPress(debugSnake, key, spot),
                    key = " " /\ debugSnake.isRunning /\ debugSnake.isPaused,
                    velocityOf(debugSnake))

NextSnake ==
    \/ StartGame
    \/ GameLoopTimer
    \/ TogglePause
    \/ \E key \in Keys : HandleKeyPress(key)

\* ------------------------------------------------------------------ actions
\* A fresh install: nothing stored but, possibly, a configuration saved by an
\* earlier session; the constructor reads the configuration in force.
InitEngine ==
    /\ games = {}
    /\ catalog = [g \in AllIds |-> {}]
    /\ storageLog = NoExport
    /\ trackedGameId = {}
    /\ statusBarItem = {}
    /\ InitDebugSnake
    /\ memConfig \in {{}} \cup {{c} : c \in UnlockConfigs}
    /\ config = getConfig
    /\ memGameState = [g \in AllIds |-> {}]
    /\ memGlobalPlayState = {}
    /\ memTotalLines = {}
    /\ activePanels = {}
    /\ events = << >>
    /\ lastAttempt = NoAttempt
    /\ charges = [g \in GameIds |-> 0]
    /\ fed = NoTrack
    /\ InitCalls

\* The tracker as constructed: nothing cached, no timer, the documents as the
\* editor holds them.
InitTracker ==
    /\ \E open \in [Docs -> Texts] :
          docText = [d \in AllDocs |-> IF d \in Docs THEN open[d] ELSE << >>]
    /\ documentCache = [d \in AllDocs |-> {}]
    /\ debounceTimer = {}
    /\ trackerConfig = getConfig
    /\ codeWritten = << >>
    /\ lastSignal = NoSignal
    /\ windowBase = {}
    /\ returned = NoCall

\* the engine alone: the tracker idle over empty documents
Init ==
    /\ InitEngine
    /\ InitTracker
    /\ docText = [d \in AllDocs |-> << >>]

\* the game's page alone, the extension idle
InitSnake == Init /\ memConfig = {}

SpecSnake == InitSnake /\ [][NextSnake]_vars

\* registerGame taking the `if (!state)` branch: the statistics are written anew
registerGameSavesState(game) ==
    /\ games' = games \cup {game.id}
    /\ catalog' = [catalog EXCEPT ![game.id] = {game}]
    /\ memGameState' = [memGameState EXCEPT ![game.id] = {DEFAULT_GAME_STATE}]
    /\ events' = << >>
    /\ lastAttempt' = NoAttempt
    /\ UNCHANGED <<returned, extVars, trackerVars, asyncVars, config, memGlobalPlayState,
                   memTotalLines, memConfig, activePanels, charges, fed>>

\* registerGame: getGameState never returns a falsy value (it falls back to a
\* copy of DEFAULT_GAME_STATE), so the `if (!state)` branch writes nothing.
registerGame(game) ==
    /\ games' = games \cup {game.id}
    /\ catalog' = [catalog EXCEPT ![game.id] = {game}]
    /\ events' = << >>
    /\ lastAttempt' = NoAttempt
    /\ UNCHANGED <<returned, extVars, trackerVars, asyncVars, config, memGameState, memGlobalPlayState, memTotalLines,
                   memConfig, activePanels, charges, fed>>

\* IGame: the fields of a game the manager is handed
IGame(id, name) == [id |-> id, name |-> name]

\* activate registering a game of its list, as the game's config.ts describes it
RegisterGame(gameId) ==
    /\ gameId \in GameIds
    /\ registerGame(IGame(gameId, "Debug Snake"))

\* attemptPlay charging the credit at attempt time
AttemptPlayCharging(gameId) ==
    LET globalState == getGlobalPlayState
        result == attemptPlay(gameId)
    IN  /\ lastAttempt' = [gameId |-> gameId, result |-> result]
        /\ events' = << >>
        /\ memGlobalPlayState' =
              IF result.success
              THEN {[globalState EXCEPT !.playsRemaining = @ - 1]}
              ELSE memGlobalPlayState
        /\ UNCHANGED <<returned, extVars, trackerVars, asyncVars, games, catalog, config, memGameState, memTotalLines,
                       memConfig, activePanels, charges, fed>>

AttemptPlay(gameId) ==
    /\ lastAttempt' = [gameId |-> gameId, result |-> attemptPlay(gameId)]
    /\ events' = << >>
    /\ UNCHANGED <<returned, extVars, trackerVars, asyncVars, games, catalog, config, memGameState, memGlobalPlayState, memTotalLines,
                   memConfig, activePanels, charges, fed>>

\* WebviewManager.openGame: a new panel starts a session; an open one is revealed.
OpenGame(gameId) ==
    LET playResult == attemptPlay(gameId)
        opens == gameId \in games /\ playResult.success /\ gameId \notin activePanels
    IN  /\ lastAttempt' = IF gameId \in games
                          THEN [gameId |-> gameId, result |-> playResult]
                          ELSE NoAttempt
        /\ events' = << >>
        /\ activePanels' = IF opens THEN activePanels \cup {gameId} ELSE activePanels
        /\ charges' = IF opens THEN [charges EXCEPT ![gameId] = 0] ELSE charges
        /\ UNCHANGED <<returned, extVars, trackerVars, asyncVars, games, catalog, config, memGameState, memGlobalPlayState,
                       memTotalLines, memConfig, fed>>

\* What an endPlay call does to the history of fed lines: a lock opens a new
\* Locked{0} period, an unlocked state has none.
FedAfterEndPlay ==
    LET before == getGlobalPlayState
    IN  IF before.playsRemaining = 1 THEN 0
        ELSE IF before.isUnlocked THEN NoTrack ELSE fed

\* WebviewManager.handleWebviewMessage, command 'gameOver'
HandleGameOver(gameId, score) ==
    /\ gameId \in activePanels
    /\ charges[gameId] < MaxCharges
    /\ getGameState(gameId).totalPlays < MaxTotalPlays
    /\ getGlobalPlayState.playsRemaining > 0 - MaxDebt
    /\ endPlay(gameId, score)
    /\ lastAttempt' = NoAttempt
    /\ charges' = [charges EXCEPT ![gameId] = @ + 1]
    /\ fed' = FedAfterEndPlay
    /\ UNCHANGED <<returned, extVars, trackerVars, asyncVars, games, catalog, config, memTotalLines, memConfig, activePanels>>

\* WebviewManager.setupPanelHandlers, panel.onDidDispose
DisposePanel(gameId) ==
    /\ gameId \in activePanels
    /\ getGameState(gameId).totalPlays < MaxTotalPlays
    /\ getGlobalPlayState.playsRemaining > 0 - MaxDebt
    /\ activePanels' = activePanels \ {gameId}
    /\ endPlay(gameId, NoScore)
    /\ lastAttempt' = NoAttempt
    /\ charges' = [charges EXCEPT ![gameId] = @ + 1]
    /\ fed' = FedAfterEndPlay
    /\ UNCHANGED <<returned, extVars, trackerVars, asyncVars, games, catalog, config, memTotalLines, memConfig>>

\* CodeTracker.onCodeWritten fires with an accepted change (netChange > 0)
HandleCodeWritten(netChange) ==
    /\ getTotalLinesWritten + netChange <= MaxTotalLines
    /\ handleCodeWritten(netChange)
    /\ lastAttempt' = NoAttempt
    /\ fed' = IF fed # NoTrack /\ fed < config.unlock.linesToUnlock
              THEN fed + netChange ELSE NoTrack
    /\ UNCHANGED <<returned, extVars, trackerVars, asyncVars, games, catalog, config, memGameState, memConfig, activePanels, charges>>

unlockGame ==
    LET globalState == [ isUnlocked |-> TRUE,
                         playsRemaining |-> config.unlock.playsPerUnlock,
                         linesWritten |-> 0 ]
    IN  /\ memGlobalPlayState' = {globalState}
        /\ events' = <<Event(UNLOCKED, Global, globalState)>>

UnlockGame ==
    /\ unlockGame
    /\ lastAttempt' = NoAttempt
    /\ fed' = NoTrack
    /\ UNCHANGED <<returned, extVars, trackerVars, asyncVars, games, catalog, config, memGameState, memTotalLines, memConfig,
                   activePanels, charges>>

lockGame ==
    LET globalState == [isUnlocked |-> FALSE, playsRemaining |-> 0, linesWritten |-> 0]
    IN  /\ memGlobalPlayState' = {globalState}
        /\ events' = <<Event(LOCKED, Global, globalState)>>

LockGame ==
    /\ lockGame
    /\ lastAttempt' = NoAttempt
    /\ fed' = 0
    /\ UNCHANGED <<returned, extVars, trackerVars, asyncVars, games, catalog, config, memGameState, memTotalLines, memConfig,
                   activePanels, charges>>

\* resetGame that clears the play count and keeps the high score
ResetGameKeepsHighScore(gameId) ==
    /\ memGameState' = [memGameState EXCEPT ![gameId] =
                           {[getGameState(gameId) EXCEPT !.totalPlays = 0]}]
    /\ events' = << >>
    /\ lastAttempt' = NoAttempt
    /\ UNCHANGED <<returned, extVars, trackerVars, asyncVars, games, catalog, config, memGlobalPlayState, memTotalLines, memConfig,
                   activePanels, charges, fed>>

\* resetGame -> StorageManager.resetGameState
ResetGame(gameId) ==
    /\ memGameState' = [memGameState EXCEPT ![gameId] = {DEFAULT_GAME_STATE}]
    /\ events' = << >>
    /\ lastAttempt' = NoAttempt
    /\ UNCHANGED <<returned, extVars, trackerVars, asyncVars, games, catalog, config, memGlobalPlayState, memTotalLines, memConfig,
                   activePanels, charges, fed>>

\* StorageManager.resetGlobalPlayState: the slot it leaves
resetGlobalPlayState == {DEFAULT_GLOBAL_PLAY_STATE}

ResetAllGames ==
    /\ memGameState' = [g \in AllIds |->
                            IF g \in games THEN {DEFAULT_GAME_STATE}
                            ELSE memGameState[g]]
    /\ memGlobalPlayState' = resetGlobalPlayState
    /\ events' = << >>
    /\ lastAttempt' = NoAttempt
    /\ fed' = NoTrack
    /\ UNCHANGED <<returned, extVars, trackerVars, asyncVars, games, catalog, config, memTotalLines, memConfig, activePanels, charges>>

\* updateConfig that compares the progress accumulated with the new threshold
UpdateConfigReevaluates(c) ==
    /\ config' = c
    /\ memConfig' = {c}
    /\ trackerConfig' = c
    /\ memGlobalPlayState' =
          IF ~getGlobalPlayState.isUnlocked
             /\ getGlobalPlayState.linesWritten >= c.unlock.linesToUnlock
          THEN {[ isUnlocked |-> TRUE, playsRemaining |-> c.unlock.playsPerUnlock,
                  linesWritten |-> 0 ]}
          ELSE memGlobalPlayState
    /\ events' = << >>
    /\ lastAttempt' = NoAttempt
    /\ fed' = NoTrack
    /\ UNCHANGED <<returned, extVars, games, catalog, memGameState, memTotalLines,
                   activePanels, charges, docText, documentCache, debounceTimer,
                   codeWritten, lastSignal, windowBase, asyncVars>>

\* GameManager.updateConfig, which hands the configuration to the tracker too
UpdateConfig(c) ==
    /\ config' = c
    /\ memConfig' = {c}
    /\ trackerConfig' = c
    /\ events' = << >>
    /\ lastAttempt' = NoAttempt
    /\ fed' = NoTrack
    /\ UNCHANGED <<returned, extVars, games, catalog, memGameState, memGlobalPlayState, memTotalLines,
                   activePanels, charges, docText, documentCache, debounceTimer,
                   codeWritten, lastSignal, windowBase, asyncVars>>

Next ==
    \/ \E g \in GameIds : RegisterGame(g)
    \/ \E g \in AllIds : AttemptPlay(g)
    \/ \E g \in AllIds : OpenGame(g)
    \/ \E g \in GameIds, score \in Scores \cup {NoScore} : HandleGameOver(g, score)
    \/ \E g \in GameIds : DisposePanel(g)
    \/ \E n \in 1..MaxDelta : HandleCodeWritten(n)
    \/ UnlockGame
    \/ LockGame
    \/ \E g \in GameIds : ResetGame(g)
    \/ ResetAllGames
    \/ \E c \in UnlockConfigs : UpdateConfig(c)

Spec == Init /\ [][Next]_vars

\* ------------------------------------------------------------------ tracker actions
\* handleDocumentChange without the debounce: every notification is compared
handleDocumentChangeEager(document, text) ==
    LET ignored == document.isUntitled \/ ~shouldTrackDocument(document)
        cachedSlot == documentCache[document]
        cachedContent == CHOOSE t \in cachedSlot : TRUE
        change == calculateLineChanges(cachedContent, text, document.languageId)
    IN  /\ text # docText[document]
        /\ docText' = [docText EXCEPT ![document] = text]
        /\ documentCache' = IF ignored THEN documentCache
                            ELSE [documentCache EXCEPT ![document] = {text}]
        /\ codeWritten' =
              IF ignored \/ notCached(cachedSlot) THEN << >>
              ELSE IF change.isMeaningful /\ change.netChange > 0
              THEN <<change>> ELSE << >>
        /\ lastSignal' = Signal("change", document)
        /\ UNCHANGED <<returned, extVars, engineVars, asyncVars, debounceTimer, trackerConfig, windowBase>>

\* onDidChangeTextDocument: the editor has put `text` in the document
handleDocumentChange(document, text) ==
    LET ignored == document.isUntitled \/ ~shouldTrackDocument(document)
        rearmed == \E timer \in debounceTimer :
                       timer.pending /\ timer.document = document
    IN  /\ text # docText[document]
        /\ docText' = [docText EXCEPT ![document] = text]
        /\ debounceTimer' =
              IF ignored THEN debounceTimer
              ELSE {[document |-> document, pending |-> TRUE]}
        /\ codeWritten' = << >>
        /\ lastSignal' = Signal("change", document)
        /\ windowBase' =
              IF ignored THEN windowBase
              ELSE IF rearmed
              THEN { [w EXCEPT !.repeated = TRUE] : w \in windowBase }
              ELSE {[ document |-> document, cached |-> documentCache[document],
                      repeated |-> FALSE, state |-> "open" ]}
        /\ UNCHANGED <<returned, extVars, engineVars, asyncVars, documentCache, trackerConfig>>

\* the callback of setTimeout; the handle stays in debounceTimer once it ran
debounceFires ==
    \E timer \in debounceTimer :
        /\ timer.pending
        /\ processDocumentChange(timer.document)
        /\ debounceTimer' = {[timer EXCEPT !.pending = FALSE]}
        /\ lastSignal' = Signal("fire", timer.document)
        /\ windowBase' = { [w EXCEPT !.state = "elapsed"] : w \in windowBase }
        /\ UNCHANGED <<returned, extVars, engineVars, asyncVars, docText, trackerConfig>>

\* onDidSaveTextDocument
handleDocumentSave(document) ==
    /\ lastSignal' = Signal("save", document)
    /\ IF ~shouldTrackDocument(document)
       THEN /\ codeWritten' = << >>
            /\ UNCHANGED <<returned, extVars, engineVars, asyncVars, docText, documentCache, debounceTimer,
                           trackerConfig, windowBase>>
       ELSE /\ debounceTimer' = {}
            /\ processDocumentChange(document)
            /\ windowBase' = { [w EXCEPT !.state = "cancelled"] :
                                 w \in {v \in windowBase : v.state = "open"} }
            /\ UNCHANGED <<returned, extVars, engineVars, asyncVars, docText, trackerConfig>>

\* CodeTracker.updateConfig
updateTrackerConfig(c) ==
    /\ trackerConfig' = c
    /\ codeWritten' = << >>
    /\ lastSignal' = NoSignal
    /\ UNCHANGED <<returned, extVars, engineVars, asyncVars, docText, documentCache, debounceTimer, windowBase>>

\* one document, of any text
InitTrackerOnly ==
    /\ InitEngine
    /\ memConfig = {}
    /\ InitTracker
    /\ docText[DocJs] = << >>

NextTracker ==
    \/ \E t \in Texts : handleDocumentChange(DocTs, t)
    \/ debounceFires
    \/ handleDocumentSave(DocTs)
    \/ \E c \in TrackerConfigs : updateTrackerConfig(c)

SpecTracker == InitTrackerOnly /\ [][NextTracker]_vars

\* two documents edited side by side
InitUnits ==
    /\ InitEngine
    /\ memConfig = {}
    /\ InitTracker
    /\ \A d \in Docs : docText[d] \in UnitTexts

NextUnits ==
    \/ \E d \in Docs, t \in UnitTexts : handleDocumentChange(d, t)
    \/ debounceFires
    \/ \E d \in Docs : handleDocumentSave(d)
    \/ \E c \in TrackerConfigs : updateTrackerConfig(c)

SpecUnits == InitUnits /\ [][NextUnits]_vars

\* the tracking scope: a tracked file, a text file and an untitled document
ScopeDocs == {DocTs, DocTxt, DocUntitled}

\* what such a unit holds: nothing, or a line of code
ScopeTexts == { << >>, <<"x">> }

InitScope ==
    /\ InitEngine
    /\ memConfig = {}
    /\ InitTracker
    /\ docText = [d \in AllDocs |-> << >>]

NextScope ==
    \/ \E d \in ScopeDocs, t \in ScopeTexts : handleDocumentChange(d, t)
    \/ debounceFires
    \/ \E d \in ScopeDocs : handleDocumentSave(d)
    \/ \E c \in TrackerConfigs : updateTrackerConfig(c)

SpecScope == InitScope /\ [][NextScope]_vars

\* ------------------------------------------------------------------ engine calls, step by step
\* Memento.update changes the value at the call and resolves later; a write
\* that is rejected leaves the slot as it was and the method throws there.

\* endPlay up to `await updateGameState`
endPlayBegin(c, gameId, score, ok) ==
    LET call == Suspended("endPlay", "updateGameState", gameId, score, 0,
                          getGlobalPlayState)
        begun == Begun("endPlay", 0)
    IN  /\ inflight[c] = Idle
        /\ CanBegin
        /\ getGameState(gameId).totalPlays < MaxTotalPlays
        /\ getGlobalPlayState.playsRemaining > 0 - MaxDebt
        /\ events' = << >>
        /\ observed' = << >>
        /\ IF ok
           THEN /\ memGameState' =
                      [memGameState EXCEPT ![gameId] =
                          {endPlayGameState(getGameState(gameId), score)}]
                /\ inflight' = [Overlap(inflight) EXCEPT ![c] = call]
                /\ ledger' = begun
                /\ failure' = {}
           ELSE /\ inflight' = Overlap(inflight)
                /\ ledger' = [begun EXCEPT !.failed = TRUE]
                /\ failure' = {call}
                /\ UNCHANGED memGameState
        /\ UNCHANGED <<returned, extVars, trackerVars, games, catalog, config, memGlobalPlayState, memTotalLines,
                       memConfig, activePanels, lastAttempt, charges, fed>>

\* endPlay from the first await to `await saveGlobalPlayState`: the state is
\* computed from the globalState read before the first await
endPlayDecrement(c, ok) ==
    LET call == inflight[c]
        newGlobalState == endPlayState(call.globalState)
        locks == call.globalState.playsRemaining - 1 = 0
        fired == IF locks THEN <<Event(LOCKED, Global, newGlobalState)>> ELSE << >>
    IN  /\ call.op = "endPlay" /\ call.pc = "updateGameState"
        /\ events' = fired
        /\ observed' = IF locks THEN <<getGlobalPlayState>> ELSE << >>
        /\ IF ok
           THEN /\ memGlobalPlayState' = {newGlobalState}
                /\ inflight' = [inflight EXCEPT ![c] =
                                   [call EXCEPT !.pc = "saveGlobalPlayState",
                                                !.fired = @ + Len(fired)]]
                /\ failure' = {}
                /\ UNCHANGED ledger
           ELSE /\ inflight' = [inflight EXCEPT ![c] = Idle]
                /\ failure' = {[call EXCEPT !.fired = @ + Len(fired)]}
                /\ ledger' = [ledger EXCEPT !.failed = TRUE]
                /\ UNCHANGED memGlobalPlayState
        /\ UNCHANGED <<returned, extVars, trackerVars, games, catalog, config, memGameState, memTotalLines,
                       memConfig, activePanels, lastAttempt, charges, fed>>

\* endPlay after the second await
endPlayEnd(c) ==
    LET call == inflight[c]
    IN  /\ call.op = "endPlay" /\ call.pc = "saveGlobalPlayState"
        /\ events' = <<Event(PLAY_ENDED, call.gameId, [score |-> call.score])>>
        /\ observed' = <<getGlobalPlayState>>
        /\ inflight' = [inflight EXCEPT ![c] = Idle]
        /\ failure' = {}
        /\ UNCHANGED <<returned, extVars, trackerVars, games, catalog, config, memGameState, memGlobalPlayState,
                       memTotalLines, memConfig, activePanels, lastAttempt, charges,
                       fed, ledger>>

\* updateGlobalProgress: the play state it stores for the one it read
progressState(globalState, linesWritten) ==
    LET newLinesWritten == globalState.linesWritten + linesWritten
    IN  IF globalState.isUnlocked THEN globalState
        ELSE IF newLinesWritten >= config.unlock.linesToUnlock
        THEN [ isUnlocked |-> TRUE,
               playsRemaining |-> config.unlock.playsPerUnlock,
               linesWritten |-> 0 ]
        ELSE [globalState EXCEPT !.linesWritten = newLinesWritten]

\* handleCodeWritten up to `await addLinesWritten`
handleCodeWrittenBegin(c, netChange, ok) ==
    LET call == Suspended("handleCodeWritten", "addLinesWritten", Global, NoScore,
                          netChange, getGlobalPlayState)
        begun == Begun("handleCodeWritten", netChange)
    IN  /\ inflight[c] = Idle
        /\ CanBegin
        /\ getTotalLinesWritten + netChange <= MaxTotalLines
        /\ events' = << >>
        /\ observed' = << >>
        /\ IF ok
           THEN /\ memTotalLines' = {getTotalLinesWritten + netChange}
                /\ inflight' = [Overlap(inflight) EXCEPT ![c] = call]
                /\ ledger' = begun
                /\ failure' = {}
           ELSE /\ inflight' = Overlap(inflight)
                /\ ledger' = [begun EXCEPT !.failed = TRUE]
                /\ failure' = {call}
                /\ UNCHANGED memTotalLines
        /\ UNCHANGED <<returned, extVars, trackerVars, games, catalog, config, memGameState, memGlobalPlayState,
                       memConfig, activePanels, lastAttempt, charges, fed>>

\* handleCodeWritten from the first await into updateGlobalProgress: while
\* Unlocked it returns and CODE_WRITTEN is fired; while Locked it reads the
\* play state and stores the new one, up to the await of that write
handleCodeWrittenProgress(c, ok) ==
    LET call == inflight[c]
        globalState == getGlobalPlayState
        newState == progressState(globalState, call.netChange)
    IN  /\ call.op = "handleCodeWritten" /\ call.pc = "addLinesWritten"
        /\ IF globalState.isUnlocked
           THEN /\ ok
                /\ events' = <<Event(CODE_WRITTEN, Global,
                                     [netChange |-> call.netChange])>>
                /\ observed' = <<globalState>>
                /\ inflight' = [inflight EXCEPT ![c] = Idle]
                /\ failure' = {}
                /\ UNCHANGED <<memGlobalPlayState, ledger>>
           ELSE /\ events' = << >>
                /\ observed' = << >>
                /\ IF ok
                   THEN /\ memGlobalPlayState' = {newState}
                        /\ inflight' = [inflight EXCEPT ![c] =
                                           [call EXCEPT !.pc = "updateGlobalProgress",
                                                        !.globalState = newState]]
                        /\ failure' = {}
                        /\ UNCHANGED ledger
                   ELSE /\ inflight' = [inflight EXCEPT ![c] = Idle]
                        /\ failure' = {call}
                        /\ ledger' = [ledger EXCEPT !.failed = TRUE]
                        /\ UNCHANGED memGlobalPlayState
        /\ UNCHANGED <<returned, extVars, trackerVars, games, catalog, config, memGameState, memTotalLines,
                       memConfig, activePanels, lastAttempt, charges, fed>>

\* handleCodeWritten after the write of updateGlobalProgress has resolved
handleCodeWrittenEnd(c) ==
    LET call == inflight[c]
        newState == call.globalState
        first == IF newState.isUnlocked
                 THEN Event(UNLOCKED, Global, newState)
                 ELSE Event(PROGRESS_UPDATED, Global,
                            [ linesWritten |-> newState.linesWritten,
                              linesRequired |-> config.unlock.linesToUnlock,
                              progress |-> <<newState.linesWritten,
                                             config.unlock.linesToUnlock>> ])
    IN  /\ call.op = "handleCodeWritten" /\ call.pc = "updateGlobalProgress"
        /\ events' = <<first, Event(CODE_WRITTEN, Global,
                                    [netChange |-> call.netChange])>>
        /\ observed' = <<getGlobalPlayState, getGlobalPlayState>>
        /\ inflight' = [inflight EXCEPT ![c] = Idle]
        /\ failure' = {}
        /\ UNCHANGED <<returned, extVars, trackerVars, games, catalog, config, memGameState, memGlobalPlayState,
                       memTotalLines, memConfig, activePanels, lastAttempt, charges,
                       fed, ledger>>

\* unlockGame (op = "unlockGame") and lockGame (op = "lockGame") up to
\* `await saveGlobalPlayState`
adminState(op) ==
    IF op = "unlockGame"
    THEN [ isUnlocked |-> TRUE, playsRemaining |-> config.unlock.playsPerUnlock,
           linesWritten |-> 0 ]
    ELSE [isUnlocked |-> FALSE, playsRemaining |-> 0, linesWritten |-> 0]

adminBegin(c, op, ok) ==
    LET call == Suspended(op, "saveGlobalPlayState", Global, NoScore, 0,
                          adminState(op))
        begun == Begun(op, 0)
    IN  /\ inflight[c] = Idle
        /\ CanBegin
        /\ events' = << >>
        /\ observed' = << >>
        /\ IF ok
           THEN /\ memGlobalPlayState' = {adminState(op)}
                /\ inflight' = [Overlap(inflight) EXCEPT ![c] = call]
                /\ ledger' = begun
                /\ failure' = {}
           ELSE /\ inflight' = Overlap(inflight)
                /\ ledger' = [begun EXCEPT !.failed = TRUE]
                /\ failure' = {call}
                /\ UNCHANGED memGlobalPlayState
        /\ UNCHANGED <<returned, extVars, trackerVars, games, catalog, config, memGameState, memTotalLines,
                       memConfig, activePanels, lastAttempt, charges, fed>>

\* unlockGame and lockGame after the await
adminEnd(c) ==
    LET call == inflight[c]
    IN  /\ call.op \in {"unlockGame", "lockGame"}
        /\ events' = <<Event(IF call.op = "unlockGame" THEN UNLOCKED ELSE LOCKED,
                             Global, call.globalState)>>
        /\ observed' = <<getGlobalPlayState>>
        /\ inflight' = [inflight EXCEPT ![c] = Idle]
        /\ failure' = {}
        /\ UNCHANGED <<returned, extVars, trackerVars, games, catalog, config, memGameState, memGlobalPlayState,
                       memTotalLines, memConfig, activePanels, lastAttempt, charges,
                       fed, ledger>>

NextAsync ==
    \/ \E c \in Calls, g \in GameIds, score \in Scores \cup {NoScore}, ok \in BOOLEAN :
          endPlayBegin(c, g, score, ok)
    \/ \E c \in Calls, ok \in BOOLEAN : endPlayDecrement(c, ok)
    \/ \E c \in Calls : endPlayEnd(c)
    \/ \E c \in Calls, n \in 1..MaxDelta, ok \in BOOLEAN :
          handleCodeWrittenBegin(c, n, ok)
    \/ \E c \in Calls, ok \in BOOLEAN : handleCodeWrittenProgress(c, ok)
    \/ \E c \in Calls : handleCodeWrittenEnd(c)
    \/ \E c \in Calls, op \in {"unlockGame", "lockGame"}, ok \in BOOLEAN :
          adminBegin(c, op, ok)
    \/ \E c \in Calls : adminEnd(c)

SpecAsync == Init /\ [][NextAsync]_vars

\* ------------------------------------------------------------------ endPlay called directly
\* GameManager.endPlay as a caller of the engine invokes it, without a panel
EndPlay(gameId, score) ==
    /\ getGameState(gameId).totalPlays < MaxTotalPlays
    /\ getGlobalPlayState.playsRemaining > 0 - MaxDebt
    /\ endPlay(gameId, score)
    /\ lastAttempt' = NoAttempt
    /\ fed' = FedAfterEndPlay
    /\ UNCHANGED <<returned, extVars, trackerVars, asyncVars, games, catalog, config, memTotalLines, memConfig,
                   activePanels, charges>>

NextPlays ==
    \/ \E g \in GameIds : RegisterGame(g)
    \/ \E g \in GameIds, score \in Scores \cup {NoScore} : EndPlay(g, score)
    \/ \E n \in 1..MaxDelta : HandleCodeWritten(n)
    \/ UnlockGame
    \/ LockGame
    \/ \E g \in GameIds : ResetGame(g)

SpecPlays == Init /\ [][NextPlays]_vars

\* ------------------------------------------------------------------ the engine's operations
NextOperations ==
    \/ \E g \in GameIds : RegisterGame(g)
    \/ \E g \in AllIds : AttemptPlay(g)
    \/ \E g \in GameIds, score \in Scores \cup {NoScore} : EndPlay(g, score)
    \/ \E n \in 1..MaxDelta : HandleCodeWritten(n)
    \/ UnlockGame
    \/ LockGame

SpecOperations == Init /\ [][NextOperations]_vars

\* the play state after a run of accepted deltas of one line each
RECURSIVE afterDeltas(_, _)
afterDeltas(globalState, run) ==
    IF run = 0 THEN globalState
    ELSE afterDeltas(progressState(globalState, 1), run - 1)

\* ------------------------------------------------------------------ registration
\* the display names a record of a game can carry
GameNames == {"Debug Snake", "Debug Snake II"}

Games == { IGame(g, n) : g \in GameIds, n \in GameNames }

NextRegister ==
    \/ \E game \in Games : registerGame(game)
    \/ \E g \in GameIds, score \in Scores \cup {NoScore} : EndPlay(g, score)
    \/ \E n \in 1..MaxDelta : HandleCodeWritten(n)

SpecRegister == Init /\ [][NextRegister]_vars

\* ------------------------------------------------------------------ extension: event listener
\* the configurations whose threshold has a three-quarter mark
MilestoneConfigs ==
    { [DEFAULT_CONFIG EXCEPT !.unlock.linesToUnlock = l] :
        l \in 2..MaxMilestoneThreshold }

\* GameManager.getGame: this.games.get(gameId), undefined for an id not registered
getGame(gameId) == IF gameId \in games THEN {gameId} ELSE {}

\* data.progress >= 0.75 && data.progress < 0.76, progress being the quotient
\* linesWritten / linesRequired
inMilestoneBand(progress) ==
    /\ 4 * progress[1] >= 3 * progress[2]
    /\ 25 * progress[1] < 19 * progress[2]

\* the onGameEvent listener of activate, case PROGRESS_UPDATED: the event
\* makes it show the "Almost there!" message
showsMilestone(e) ==
    /\ e.event = PROGRESS_UPDATED
    /\ inMilestoneBand(e.data.progress)
    /\ getGame(e.gameId) # {}

\* the messages the listener showed for the events fired last
milestoneMessages == SelectSeq(events, showsMilestone)

NextMilestone ==
    \/ \E g \in GameIds : RegisterGame(g)
    \/ \E n \in 1..MaxDelta : HandleCodeWritten(n)
    \/ UnlockGame
    \/ LockGame
    \/ \E c \in MilestoneConfigs : UpdateConfig(c)

SpecMilestone == Init /\ [][NextMilestone]_vars

\* ------------------------------------------------------------------ StatusBarManager
PLAY_STARTED == "game:playStarted"

isGameUnlocked == getGlobalPlayState.isUnlocked

getPlaysRemaining == getGlobalPlayState.playsRemaining

getLockedGames == IF getGlobalPlayState.isUnlocked THEN {} ELSE games

getUnlockedGames == IF getGlobalPlayState.isUnlocked THEN games ELSE {}

\* determineTrackedGame: the games share one progress, so each branch takes
\* the first game of its list; null without games
determineTrackedGame ==
    LET gamesWithPlays == { g \in getUnlockedGames : getPlaysRemaining > 0 }
    IN  IF games = {} THEN {}
        ELSE IF getLockedGames # {} THEN {CHOOSE g \in getLockedGames : TRUE}
        ELSE IF gamesWithPlays # {} THEN {CHOOSE g \in gamesWithPlays : TRUE}
        ELSE {CHOOSE g \in games : TRUE}

\* state.isUnlocked and state.playsRemaining of an object read from the
\* store: undefined, which is falsy, when the object has no such property
isUnlockedOf(state) ==
    IF "isUnlocked" \in DOMAIN state THEN state.isUnlocked ELSE FALSE

\* what the item shows
showNoGamesStatus == [status |-> "noGames", playsRemaining |-> {}, linesRemaining |-> {}]

showUnlockedStatus(state) ==
    IF "playsRemaining" \in DOMAIN state /\ state.playsRemaining > 0
    THEN [ status |-> "unlocked", playsRemaining |-> {state.playsRemaining},
           linesRemaining |-> {} ]
    ELSE [status |-> "noPlays", playsRemaining |-> {}, linesRemaining |-> {}]

showLockedStatus(linesRemaining) ==
    [status |-> "locked", playsRemaining |-> {}, linesRemaining |-> {linesRemaining}]

\* update: the item for the tracked game, read from the game's own state
update(tracked) ==
    IF tracked = {} THEN showNoGamesStatus
    ELSE LET trackedId == CHOOSE g \in tracked : TRUE
             state == getGameState(trackedId)
         IN  IF getGame(trackedId) = {} THEN showNoGamesStatus
             ELSE IF isUnlockedOf(state) THEN showUnlockedStatus(state)
             ELSE showLockedStatus(getRemainingLinesToUnlock)

\* the constructor, called by activate once the games are registered
CreateStatusBar ==
    /\ statusBarItem = {}
    /\ games # {}
    /\ trackedGameId' = determineTrackedGame
    /\ statusBarItem' = {update(determineTrackedGame)}
    /\ UNCHANGED <<returned, storageLog, snakeVars, engineVars, trackerVars, asyncVars>>

\* the listener of onGameEvent, for the events the last call fired
StatusBarOnGameEvent ==
    LET redetermines == \E i \in 1..Len(events) :
                           events[i].event \in {UNLOCKED, LOCKED, PLAY_STARTED, PLAY_ENDED}
        tracked == IF redetermines THEN determineTrackedGame ELSE trackedGameId
    IN  /\ statusBarItem # {}
        /\ events # << >>
        /\ trackedGameId' = tracked
        /\ statusBarItem' = {update(tracked)}
        /\ UNCHANGED <<returned, storageLog, snakeVars, engineVars, trackerVars, asyncVars>>

\* the callback of setInterval
StatusBarTimer ==
    /\ statusBarItem # {}
    /\ statusBarItem' = {update(trackedGameId)}
    /\ UNCHANGED <<returned, storageLog, snakeVars, trackedGameId, engineVars, trackerVars, asyncVars>>

NextStatusBar ==
    \/ \E g \in GameIds : RegisterGame(g)
    \/ \E g \in GameIds, score \in Scores \cup {NoScore} : EndPlay(g, score)
    \/ \E n \in 1..MaxDelta : HandleCodeWritten(n)
    \/ UnlockGame
    \/ LockGame
    \/ CreateStatusBar
    \/ StatusBarOnGameEvent
    \/ StatusBarTimer

SpecStatusBar == Init /\ [][NextStatusBar]_vars

\* ------------------------------------------------------------------ the classifier alone
\* one call, of any line and language
ClassifyLine ==
    /\ returned = NoCall
    /\ \E line \in ClassifierLines, languageId \in LanguageIds :
          callIsLineMeaningful(line, languageId)

\* one call, of any array of lines and a language of each family
CountLines ==
    /\ returned = NoCall
    /\ \E lines \in CountedArrays, languageId \in FamilyIds :
          callCountMeaningfulLines(lines, languageId)

NextClassifier == ClassifyLine \/ CountLines

\* the tracker as constructed, under the default configuration
InitClassifier == Init /\ memConfig = {}

SpecClassifier == InitClassifier /\ [][NextClassifier]_vars

\* the comparison of two texts, under each configuration of the tracker
InitChanges ==
    /\ InitEngine
    /\ memConfig = {}
    /\ docText = [d \in AllDocs |-> << >>]
    /\ documentCache = [d \in AllDocs |-> {}]
    /\ debounceTimer = {}
    /\ trackerConfig \in TrackerConfigs
    /\ codeWritten = << >>
    /\ lastSignal = NoSignal
    /\ windowBase = {}
    /\ returned = NoCall

\* one call, of any two texts and a language of each family
CompareTexts ==
    /\ returned = NoCall
    /\ \E oldContent \in Texts, newContent \in Texts, languageId \in FamilyIds :
          callCalculateLineChanges(oldContent, newContent, languageId)

NextChanges == CompareTexts

SpecChanges == InitChanges /\ [][NextChanges]_vars

\* ------------------------------------------------------------------ claims
\* the step is a delta handler's: CODE_WRITTEN is the last event it fired
DeltaStep == events' # << >> /\ events'[Len(events')].event = CODE_WRITTEN

\* the step is an endPlay call's: PLAY_ENDED is the last event it fired
EndPlayStep == events' # << >> /\ events'[Len(events')].event = PLAY_ENDED

\* the step is an attemptPlay call's
AttemptStep == lastAttempt' # NoAttempt

Fired(e) == \E i \in 1..Len(events) : events[i].event = e

\* C1: from Locked{0} under a fixed config, a delta unlocks exactly when the
\* lines fed so far first reach linesToUnlock, leaving playsRemaining =
\* playsPerUnlock and linesWritten = 0; an earlier delta leaves the engine
\* Locked with the fed lines as its progress.
C1_UnlocksOnCrossingDelta ==
    [][ (DeltaStep /\ fed # NoTrack /\ fed < config.unlock.linesToUnlock) =>
          LET after == getGlobalPlayState'
          IN  /\ ~getGlobalPlayState.isUnlocked
              /\ IF fed' >= config.unlock.linesToUnlock
                 THEN /\ after.isUnlocked
                      /\ after.playsRemaining = config.unlock.playsPerUnlock
                      /\ after.linesWritten = 0
                 ELSE /\ ~after.isUnlocked
                      /\ after.linesWritten = fed' ]_vars

\* a delta after more than one fed delta has just crossed the threshold
C1_Witness ==
    /\ fed # NoTrack /\ fed >= config.unlock.linesToUnlock /\ fed > MaxDelta
    /\ Len(events) = 2 /\ events[1].event = UNLOCKED /\ events[2].event = CODE_WRITTEN
    /\ getGlobalPlayState.isUnlocked

\* C2: endPlay at playsRemaining = 1 leaves Locked with linesWritten = 0 and
\* fires LOCKED; endPlay at playsRemaining > 1 only decrements playsRemaining,
\* leaves isUnlocked true and fires no LOCKED.
C2_EndPlayLocksAtLastCredit ==
    [][ EndPlayStep =>
          LET before == getGlobalPlayState
              after == getGlobalPlayState'
          IN  /\ before.playsRemaining = 1 =>
                    /\ ~after.isUnlocked
                    /\ after.linesWritten = 0
                    /\ after.playsRemaining = 0
                    /\ Fired(LOCKED)'
              /\ before.playsRemaining > 1 =>
                    /\ after = [before EXCEPT !.playsRemaining = @ - 1]
                    /\ after.isUnlocked
                    /\ ~Fired(LOCKED)' ]_vars

\* an endPlay call has just locked the engine
C2_Witness ==
    /\ Len(events) = 2 /\ events[1].event = LOCKED /\ events[2].event = PLAY_ENDED
    /\ ~getGlobalPlayState.isUnlocked
    /\ getGlobalPlayState.playsRemaining = 0

\* C3: playsRemaining is never negative.
C3_PlaysRemainingNonNegative == getGlobalPlayState.playsRemaining >= 0

\* C4: after every completed operation, a Locked engine has playsRemaining = 0.
C4_LockedHasNoPlays ==
    ~getGlobalPlayState.isUnlocked => getGlobalPlayState.playsRemaining = 0

\* C5: an Unlocked engine has linesWritten = 0, and a delta handled while
\* Unlocked leaves the play state as it was and fires neither UNLOCKED nor
\* PROGRESS_UPDATED.
C5_ProgressOnlyWhileLocked ==
    /\ [](getGlobalPlayState.isUnlocked => getGlobalPlayState.linesWritten = 0)
    /\ [][ (DeltaStep /\ getGlobalPlayState.isUnlocked) =>
             /\ getGlobalPlayState' = getGlobalPlayState
             /\ ~Fired(UNLOCKED)'
             /\ ~Fired(PROGRESS_UPDATED)' ]_vars

\* a delta was just handled by an Unlocked engine
C5_Witness ==
    /\ events # << >> /\ events[Len(events)].event = CODE_WRITTEN
    /\ getGlobalPlayState.isUnlocked
    /\ ~Fired(UNLOCKED)

\* the classes of attemptPlay's result, but for the number in the Locked message
AttemptClassified ==
    LET r == lastAttempt'.result
        s == getGlobalPlayState
    IN  /\ r.tag = "NotFound" <=> lastAttempt'.gameId \notin games
        /\ r.tag = "NotFound" =>
              UNCHANGED <<memGameState, memGlobalPlayState, memTotalLines, memConfig>>
        /\ r.tag = "Locked" <=> (lastAttempt'.gameId \in games /\ ~s.isUnlocked)
        /\ r.tag = "NoCreditsRemaining" <=>
              (lastAttempt'.gameId \in games /\ s.isUnlocked /\ s.playsRemaining <= 0)
        /\ r.success <=>
              (lastAttempt'.gameId \in games /\ s.isUnlocked /\ s.playsRemaining > 0)
        /\ r.success <=> r.tag = "ok"

\* C6 as stated: attemptPlay fails with NotFound for an unregistered id (store
\* untouched), with Locked while Locked, its message stating linesToUnlock -
\* linesWritten, with NoCreditsRemaining while Unlocked with playsRemaining <= 0,
\* and succeeds otherwise.
C6_LockedMessageStatesDifference ==
    [][ AttemptStep =>
          /\ AttemptClassified
          /\ lastAttempt'.result.tag = "Locked" =>
                lastAttempt'.result.lines =
                    config.unlock.linesToUnlock - getGlobalPlayState.linesWritten ]_vars

\* C6 amended: the same classes, the Locked message stating
\* max(0, linesToUnlock - linesWritten).
C6_LockedMessageStatesClampedDifference ==
    [][ AttemptStep =>
          /\ AttemptClassified
          /\ lastAttempt'.result.tag = "Locked" =>
                lastAttempt'.result.lines =
                    Max(0, config.unlock.linesToUnlock - getGlobalPlayState.linesWritten) ]_vars

\* attemptPlay has just refused a registered game while Locked with progress
C6_Witness ==
    /\ lastAttempt.result.tag = "Locked"
    /\ lastAttempt.gameId \in games
    /\ getGlobalPlayState.linesWritten > 0
    /\ lastAttempt.result.lines > 0

\* C7: attemptPlay leaves the play state, the statistics and the catalog as
\* they were.
C7_AttemptPlayChangesNothing ==
    [][ AttemptStep =>
          UNCHANGED <<games, config, memGameState, memGlobalPlayState,
                      memTotalLines, memConfig>> ]_vars

\* attemptPlay has just succeeded
C7_Witness ==
    /\ lastAttempt.result.success
    /\ getGlobalPlayState.playsRemaining > 0

\* C8: a completed session (its panel closed) was charged exactly one credit.
C8_SessionChargedOnce ==
    \A g \in GameIds : (g \notin activePanels /\ charges[g] > 0) => charges[g] = 1

meaningfulCount(text, languageId) == countMeaningfulLines(split(text), languageId)

\* C10: counting meaningful lines only, processing a snapshot B of a document
\* whose cached snapshot is A (the empty text included), with
\* meaningfulCount(B) > meaningfulCount(A), fires exactly one change, with
\* isMeaningful true and netChange = meaningfulCount(B) - meaningfulCount(A).
C10_GrowthEmitsOneDelta ==
    [][ \A d \in Docs : \A A \in documentCache[d] : \A B \in documentCache'[d] :
          ( /\ trackerConfig.unlock.countMeaningfulLinesOnly
            /\ documentCache'[d] # documentCache[d]
            /\ meaningfulCount(B, d.languageId) > meaningfulCount(A, d.languageId) )
          => /\ Len(codeWritten') = 1
             /\ codeWritten'[1].isMeaningful
             /\ codeWritten'[1].netChange =
                   meaningfulCount(B, d.languageId) - meaningfulCount(A, d.languageId) ]_vars

\* the step ran processDocumentChange on document d
Processed(d) ==
    /\ lastSignal'.unit = {d}
    /\ \/ lastSignal'.kind = "fire"
       \/ lastSignal'.kind = "save" /\ shouldTrackDocument(d)

\* what the comparison-and-emit step fires for cached text A and new text B
Emitted(A, B, languageId) ==
    LET change == calculateLineChanges(A, B, languageId)
    IN  IF change.isMeaningful /\ change.netChange > 0 THEN <<change>> ELSE << >>

\* C11: processing a document with no cache entry stores its text and fires
\* nothing; processing a document that has an entry (it was observed before)
\* is a comparison of the entry with the text, not a first observation.
C11_OnlyUnseenIsFirstObservation ==
    [][ \A d \in Docs : Processed(d) =>
          /\ documentCache'[d] = {docText[d]}
          /\ documentCache[d] = {} => codeWritten' = << >>
          /\ \A A \in documentCache[d] :
                codeWritten' = Emitted(A, docText[d], d.languageId) ]_vars

\* C12: the notifications of a debounce window fire nothing themselves; when
\* the window elapses at most one change is fired, and it is the comparison of
\* the text cached when the window opened with the text of the last
\* notification.
C12_WindowFiresAtMostOneDelta ==
    [][ /\ lastSignal'.kind = "change" => codeWritten' = << >>
        /\ lastSignal'.kind = "fire" =>
              \E w \in windowBase :
                  /\ w.state = "open"
                  /\ lastSignal'.unit = {w.document}
                  /\ Len(codeWritten') <= 1
                  /\ codeWritten' # << >> =>
                        \E A \in w.cached :
                            codeWritten'[1] =
                                calculateLineChanges(A, docText[w.document],
                                                     w.document.languageId) ]_vars

\* a window of more than one notification has elapsed and fired a change
C12_Witness ==
    /\ lastSignal.kind = "fire"
    /\ Len(codeWritten) = 1
    /\ \E w \in windowBase :
          /\ w.state = "elapsed"
          /\ lastSignal.unit = {w.document}
          /\ w.repeated

\* C13: a change or save of another document leaves a pending comparison
\* pending: the timer armed for document A is still armed after a signal for
\* a different document B.
C13_OtherUnitKeepsPendingTimer ==
    [][ \A timer \in debounceTimer :
          ( /\ timer.pending
            /\ lastSignal'.kind \in {"change", "save"}
            /\ lastSignal'.unit # {timer.document} )
          => timer \in debounceTimer' ]_vars

\* C14: a save of a tracked document that has a cache entry leaves no timer
\* pending and has compared the entry with the saved text before it returns,
\* so the lines of an edit followed by a save are fired once: what is fired
\* is the comparison's change, and comparing again fires nothing.
C14_SaveCountsEditOnce ==
    [][ \A d \in Docs : \A A \in documentCache[d] :
          (lastSignal' = Signal("save", d) /\ shouldTrackDocument(d)) =>
              /\ ~\E timer \in debounceTimer' : timer.pending
              /\ documentCache'[d] = {docText[d]}
              /\ codeWritten' = Emitted(A, docText[d], d.languageId)
              /\ \A B \in documentCache'[d] :
                    Emitted(B, docText'[d], d.languageId) = << >> ]_vars

\* C14, the part the timer decides: a save of a tracked document leaves no
\* timer pending and has run processDocumentChange before it returns.
C14_SaveCancelsAndProcesses ==
    [][ \A d \in Docs :
          (lastSignal' = Signal("save", d) /\ shouldTrackDocument(d)) =>
              /\ ~\E timer \in debounceTimer' : timer.pending
              /\ documentCache'[d] = {docText[d]}
              /\ codeWritten' = IF notCached(documentCache[d]) THEN << >>
                                ELSE Emitted(CHOOSE A \in documentCache[d] : TRUE,
                                             docText[d], d.languageId) ]_vars

\* C15: every change fired has isMeaningful true and a netChange > 0 (the
\* meaningful or the raw difference, as configured), and a comparison whose
\* configured net change is zero or negative fires nothing.
C15_FiredChangesArePositive ==
    /\ [](\A i \in 1..Len(codeWritten) :
             codeWritten[i].isMeaningful /\ codeWritten[i].netChange > 0)
    /\ [][ \A d \in Docs : \A A \in documentCache[d] :
             ( /\ Processed(d)
               /\ calculateLineChanges(A, docText[d], d.languageId).netChange <= 0 )
             => codeWritten' = << >> ]_vars

\* a change was fired while counting raw lines
C15_Witness ==
    /\ ~trackerConfig.unlock.countMeaningfulLinesOnly
    /\ lastSignal.kind \in {"fire", "save"}
    /\ Len(codeWritten) = 1
    /\ codeWritten[1].netChange > 0


\* C16: a persistence write that fails during a transition (endPlay, the
\* handling of a delta, unlock, lock) aborts the whole transition: the store
\* is as it was when the call began and the call has fired no event.  Stated
\* for a call that ran alone, so that every change seen is its own.
C16_FailedWriteAbortsTransition ==
    [][\A call \in failure' :
          ~call.overlapped => /\ Stored' = call.before
                              /\ call.fired = 0
                              /\ events' = << >>]_vars

\* the play state a call of the ledger stores when it runs alone from `state`
serialStep(state, entry) ==
    IF entry.op = "endPlay" THEN endPlayState(state)
    ELSE IF entry.op = "handleCodeWritten" THEN progressState(state, entry.netChange)
    ELSE adminState(entry.op)

\* the play states the calls ops[i], i \in todo, can leave when run one after
\* another in some order from `state`
RECURSIVE SerialOutcomes(_, _, _)
SerialOutcomes(state, ops, todo) ==
    IF todo = {} THEN {state}
    ELSE UNION { SerialOutcomes(serialStep(state, ops[i]), ops, todo \ {i}) :
                 i \in todo }

\* C17: engine transitions are serializable: when overlapping endPlay calls
\* and delta handlers (and unlock, lock) have all completed, the stored play
\* state is one that the same calls leave when run one after another in some
\* order (two overlapping endPlay from n >= 2 leave n - 2).
C17_OverlappingCallsSerializable ==
    ( /\ \A c \in Calls : inflight[c] = Idle
      /\ ledger.ops # << >>
      /\ ~ledger.failed )
    => getGlobalPlayState \in
          SerialOutcomes(ledger.base, ledger.ops, DOMAIN ledger.ops)

\* C18: a Locked or Unlocked event is fired only after the write of the new
\* state has taken place: the play state an observer reads from the store at
\* the event is the state the event announces.  Stated for steps of a call
\* that runs alone.
C18_EventFollowsStoredState ==
    [][(\A c \in Calls : ~inflight[c].overlapped)
       => \A i \in 1..Len(events') :
             events'[i].event \in {LOCKED, UNLOCKED}
             => observed'[i] = events'[i].data]_vars


\* C19: each manual admin operation always emits its transition event, from
\* every starting state: unlockGame an Unlocked event, lockGame a Locked
\* event, resetGame and resetAllGames an event announcing the state they set.
C19_AdminOpsEmitTheirEvent ==
    [][ /\ UnlockGame => \E i \in 1..Len(events') : events'[i].event = UNLOCKED
        /\ LockGame => \E i \in 1..Len(events') : events'[i].event = LOCKED
        /\ (\E g \in GameIds : ResetGame(g)) => events' # << >>
        /\ ResetAllGames => events' # << >> ]_vars

TOTAL_LINES_WRITTEN == "codeToPlay.totalLinesWritten"
GLOBAL_PLAY_STATE == "codeToPlay.globalPlayState"
CONFIG == "codeToPlay.config"

\* getGameStateKey: `${StorageKey.GAME_STATE_PREFIX}${gameId}`
getGameStateKey(gameId) ==
    IF gameId = Ghost THEN "codeToPlay.gameState.ghost"
    ELSE "codeToPlay.gameState.debug-snake"

\* Memento.keys() can hold these keys of the extension, in this order
ExtensionKeys ==
    <<TOTAL_LINES_WRITTEN, GLOBAL_PLAY_STATE, CONFIG,
      getGameStateKey("debug-snake"), getGameStateKey(Ghost)>>

\* the whole Memento
StoredAll == [ game |-> memGameState, global |-> memGlobalPlayState,
               total |-> memTotalLines, config |-> memConfig ]

\* the slot of a key
slotOf(store, key) ==
    IF key = TOTAL_LINES_WRITTEN THEN store.total
    ELSE IF key = GLOBAL_PLAY_STATE THEN store.global
    ELSE IF key = CONFIG THEN store.config
    ELSE IF key = getGameStateKey(Ghost) THEN store.game[Ghost]
    ELSE store.game["debug-snake"]
\* a key of another extension found in the file
ForeignKey == "other.setting"

ImportKeys == {TOTAL_LINES_WRITTEN, GLOBAL_PLAY_STATE, ForeignKey}

\* key.startsWith('codeToPlay.')
startsWithCodeToPlay(key) == \E i \in 1..Len(ExtensionKeys) : key = ExtensionKeys[i]

\* a JSON value: a number or an object (the other field is unused)
JsonNumber(n) == [type |-> "number", number |-> n, object |-> DEFAULT_GLOBAL_PLAY_STATE]
JsonObject(o) == [type |-> "object", number |-> 0, object |-> o]
jsValue(json) == IF json.type = "number" THEN json.number ELSE json.object

\* the values a file gives to a key
ImportValues(key) ==
    IF key = TOTAL_LINES_WRITTEN THEN { JsonNumber(n) : n \in 0..MaxTotalLines }
    ELSE IF key = GLOBAL_PLAY_STATE
    THEN { JsonObject(DEFAULT_GLOBAL_PLAY_STATE),
           JsonObject([playsRemaining |-> 0, linesWritten |-> 1, isUnlocked |-> FALSE]) }
    ELSE { JsonNumber(0) }

ImportEntry == UNION { { [key |-> k, value |-> v] : v \in ImportValues(k) } : k \in ImportKeys }

\* Object.entries of the objects a file can hold: its keys in the order written
ImportObjects ==
    { << >> } \cup { <<e>> : e \in ImportEntry }
              \cup { <<p[1], p[2]>> :
                       p \in { q \in ImportEntry \X ImportEntry : q[1].key # q[2].key } }

\* the texts handed to importData: one JSON.parse rejects, the text `null`,
\* and the objects
JsonTexts ==
    { [kind |-> "malformed", entries |-> << >>], [kind |-> "null", entries |-> << >>] }
      \cup { [kind |-> "object", entries |-> o] : o \in ImportObjects }

\* the entries importData hands to globalState.update, in order
importWrites(jsonData) == SelectSeq(jsonData.entries, LAMBDA e : startsWithCodeToPlay(e.key))

\* globalState.update(key, value)
updateSlot(store, entry) ==
    IF entry.key = TOTAL_LINES_WRITTEN
    THEN [store EXCEPT !.total = {jsValue(entry.value)}]
    ELSE IF entry.key = GLOBAL_PLAY_STATE
    THEN [store EXCEPT !.global = {jsValue(entry.value)}]
    ELSE IF entry.key = CONFIG
    THEN [store EXCEPT !.config = {jsValue(entry.value)}]
    ELSE IF entry.key = getGameStateKey(Ghost)
    THEN [store EXCEPT !.game[Ghost] = {jsValue(entry.value)}]
    ELSE [store EXCEPT !.game["debug-snake"] = {jsValue(entry.value)}]

RECURSIVE updateSlots(_, _, _)
updateSlots(store, writes, n) ==
    IF n = 0 THEN store
    ELSE updateSlot(updateSlots(store, writes, n - 1), writes[n])

\* importData: JSON.parse and Object.entries throw before any write; the
\* writes are awaited one after the other and the one rejected throws out of
\* the loop, the earlier ones staying written. rejectedAt is the write the
\* Memento rejects, 0 for none.
importData(jsonData, rejectedAt) ==
    LET writes == importWrites(jsonData)
        written == IF rejectedAt = 0 THEN Len(writes) ELSE rejectedAt - 1
    IN  IF jsonData.kind # "object"
        THEN [store |-> StoredAll, threw |-> TRUE, written |-> << >>]
        ELSE [ store |-> updateSlots(StoredAll, writes, written),
               threw |-> rejectedAt # 0,
               written |-> [i \in 1..written |-> writes[i].key] ]

\* JSON.stringify of a stored value
stringify(key, value) ==
    IF key = TOTAL_LINES_WRITTEN THEN JsonNumber(value) ELSE JsonObject(value)

\* exportData leaving the game states out
exportDataWithoutGames ==
    LET stored == SelectSeq(ExtensionKeys,
                            LAMBDA k : /\ slotOf(StoredAll, k) # {}
                                       /\ k \in {TOTAL_LINES_WRITTEN, GLOBAL_PLAY_STATE, CONFIG})
    IN  [ kind |-> "object",
          entries |-> [ i \in 1..Len(stored) |->
                          [ key |-> stored[i],
                            value |-> stringify(stored[i],
                                         CHOOSE v \in slotOf(StoredAll, stored[i]) : TRUE) ] ] ]

\* exportData: every key of the extension that is stored, with its value
exportData ==
    LET stored == SelectSeq(ExtensionKeys, LAMBDA k : slotOf(StoredAll, k) # {})
    IN  [ kind |-> "object",
          entries |-> [ i \in 1..Len(stored) |->
                          [ key |-> stored[i],
                            value |-> stringify(stored[i],
                                         CHOOSE v \in slotOf(StoredAll, stored[i]) : TRUE) ] ] ]

\* the log after importData: the exported text imported into the cleared
\* store completes the round trip; `written` is the keys handed to update
AfterImport(jsonData, result) ==
    IF storageLog.phase = "cleared" /\ jsonData = storageLog.text /\ ~result.threw
    THEN [storageLog EXCEPT !.phase = "imported", !.written = result.written]
    ELSE [NoExport EXCEPT !.written = result.written]

\* the call of importData that threw: `Failed to import data: ...`
FailedImport(jsonData, rejectedAt) ==
    [op |-> "importData", jsonData |-> jsonData, rejectedAt |-> rejectedAt]

ImportData(jsonData, rejectedAt) ==
    LET result == importData(jsonData, rejectedAt)
    IN  /\ rejectedAt <= Len(importWrites(jsonData))
        /\ memGlobalPlayState' = result.store.global
        /\ memTotalLines' = result.store.total
        /\ memGameState' = result.store.game
        /\ memConfig' = result.store.config
        /\ failure' = IF result.threw THEN {FailedImport(jsonData, rejectedAt)} ELSE {}
        /\ storageLog' = AfterImport(jsonData, result)
        /\ UNCHANGED <<returned, statusBarVars, snakeVars, trackerVars, games, catalog, config,
                       activePanels, events, lastAttempt, charges, fed, inflight,
                       ledger, observed>>

NextImport == \E jsonData \in JsonTexts, rejectedAt \in 0..2 : ImportData(jsonData, rejectedAt)

SpecImport == Init /\ [][NextImport]_vars

\* ------------------------------------------------------------------ StorageManager: export, clear
ExportData ==
    /\ storageLog' = [ phase |-> "exported", store |-> StoredAll, text |-> exportData,
                       written |-> << >> ]
    /\ UNCHANGED <<returned, statusBarVars, snakeVars, engineVars, trackerVars, asyncVars>>

\* clearAllData: update(key, undefined) for every key of the extension
ClearAllData ==
    /\ memGameState' = [g \in AllIds |-> {}]
    /\ memGlobalPlayState' = {}
    /\ memTotalLines' = {}
    /\ memConfig' = {}
    /\ storageLog' = IF storageLog.phase = "exported"
                     THEN [storageLog EXCEPT !.phase = "cleared"] ELSE NoExport
    /\ UNCHANGED <<returned, statusBarVars, snakeVars, trackerVars, asyncVars, games, catalog, config,
                   activePanels, events, lastAttempt, charges, fed>>

\* importData of the text exported last
ImportExported ==
    /\ storageLog.phase \in {"exported", "cleared"}
    /\ ImportData(storageLog.text, 0)

\* importData of a file that also holds a key of another extension
ImportForeign ==
    \E jsonData \in { t \in JsonTexts : Len(t.entries) = 2 } : ImportData(jsonData, 0)

\* the states a game's statistics can be stored in
StoredGameStates ==
    { st \in [highScore : Scores, totalPlays : 0..MaxTotalPlays] :
        st.highScore = 0 \/ st.totalPlays > 0 }

\* the play states that can be stored under a configuration
StoredPlayStates(c) ==
    { DEFAULT_GLOBAL_PLAY_STATE,
      [playsRemaining |-> 0, linesWritten |-> 0, isUnlocked |-> FALSE],
      [playsRemaining |-> 0, linesWritten |-> 1, isUnlocked |-> FALSE],
      [playsRemaining |-> c.unlock.playsPerUnlock, linesWritten |-> 0, isUnlocked |-> TRUE] }

\* a store left by earlier sessions: each key absent or holding a value
InitRoundTrip ==
    /\ games = {}
    /\ catalog = [g \in AllIds |-> {}]
    /\ storageLog = NoExport
    /\ trackedGameId = {}
    /\ statusBarItem = {}
    /\ InitDebugSnake
    /\ memConfig \in {{}} \cup {{c} : c \in UnlockConfigs}
    /\ config = getConfig
    /\ activePanels = {}
    /\ events = << >>
    /\ lastAttempt = NoAttempt
    /\ charges = [g \in GameIds |-> 0]
    /\ fed = NoTrack
    /\ InitCalls
    /\ InitTracker
    /\ docText = [d \in AllDocs |-> << >>]
    /\ memGameState \in
          { [g \in AllIds |-> IF g = Ghost THEN {} ELSE slot] :
              slot \in {{}} \cup { {st} : st \in StoredGameStates } }
    /\ memGlobalPlayState \in {{}} \cup { {st} : st \in StoredPlayStates(config) }
    /\ memTotalLines \in {{}} \cup { {n} : n \in 0..MaxTotalLines }

NextRoundTrip ==
    \/ ExportData
    \/ ClearAllData
    \/ ImportExported
    \/ ImportForeign

SpecRoundTrip == InitRoundTrip /\ [][NextRoundTrip]_vars

\* C21: updateConfig changes only the threshold of later comparisons: the
\* step that sets the configuration leaves isUnlocked, playsRemaining and
\* linesWritten as they were, also when the new linesToUnlock is at or below
\* the lines accumulated; and the delta handled next while Locked unlocks
\* exactly when the accumulated lines plus the delta reach the threshold of
\* the configuration in force.
C21_UpdateConfigKeepsPlayState ==
    [][ /\ (\E c \in UnlockConfigs : UpdateConfig(c))
           => memGlobalPlayState' = memGlobalPlayState
        /\ (DeltaStep /\ ~getGlobalPlayState.isUnlocked)
           => ( getGlobalPlayState'.isUnlocked
                <=> getGlobalPlayState.linesWritten
                       + events'[Len(events')].data.netChange
                    >= config.unlock.linesToUnlock ) ]_vars

\* updateConfig has just lowered the threshold to or below the progress of a
\* Locked engine
C21_Witness ==
    /\ events = << >>
    /\ memConfig = {config}
    /\ ~getGlobalPlayState.isUnlocked
    /\ getGlobalPlayState.linesWritten >= config.unlock.linesToUnlock


\* the events of kind e among those the step fired
FiredOf(e) == { i \in 1..Len(events') : events'[i].event = e }

\* C22: for every delta handled while Locked: when the new progress is below
\* the threshold the new linesWritten is stored and exactly one
\* ProgressUpdated event is fired, with linesWritten the new progress and
\* linesRequired the threshold, and no Unlocked event; when the new progress
\* reaches the threshold exactly one Unlocked event is fired and no
\* ProgressUpdated event.
C22_LockedDeltaFiresOneEvent ==
    [][ (DeltaStep /\ ~getGlobalPlayState.isUnlocked) =>
          LET newProgress == getGlobalPlayState.linesWritten
                               + events'[Len(events')].data.netChange
              threshold == config.unlock.linesToUnlock
          IN  IF newProgress < threshold
              THEN /\ getGlobalPlayState'.linesWritten = newProgress
                   /\ ~getGlobalPlayState'.isUnlocked
                   /\ Cardinality(FiredOf(PROGRESS_UPDATED)) = 1
                   /\ FiredOf(UNLOCKED) = {}
                   /\ \A i \in FiredOf(PROGRESS_UPDATED) :
                         /\ events'[i].data.linesWritten = newProgress
                         /\ events'[i].data.linesRequired = threshold
              ELSE /\ Cardinality(FiredOf(UNLOCKED)) = 1
                   /\ FiredOf(PROGRESS_UPDATED) = {}
                   /\ getGlobalPlayState'.isUnlocked ]_vars

\* both cases have happened: a delta that unlocked, fed to a Locked engine
\* with lines already accumulated
C22_Witness ==
    /\ Len(events) = 2
    /\ events[1].event = UNLOCKED
    /\ events[2].event = CODE_WRITTEN
    /\ events[2].data.netChange < config.unlock.linesToUnlock


\* C23: in a Locked period the 75% milestone message is shown exactly once
\* when the progress ratio crosses 0.75 from below in an update that lands it
\* in [0.75, 0.76): the delta that takes the ratio of a Locked engine, with a
\* game registered, from below 0.75 into that band shows one message.
C23_MilestoneShownOnCrossing ==
    [][ ( /\ DeltaStep
          /\ games # {}
          /\ ~getGlobalPlayState.isUnlocked
          /\ ~getGlobalPlayState'.isUnlocked
          /\ 4 * getGlobalPlayState.linesWritten < 3 * config.unlock.linesToUnlock
          /\ inMilestoneBand(<<getGlobalPlayState'.linesWritten,
                               config.unlock.linesToUnlock>>) )
        => Len(milestoneMessages') = 1 ]_vars


\* C24: every endPlay call raises the game's totalPlays by exactly 1, leaves
\* highScore at the larger of the stored high score and the score (unchanged
\* when no score is given or it is not higher), so highScore never decreases,
\* and fires exactly one PlayEnded event, whether or not the call locks.
C24_EndPlayUpdatesStatistics ==
    [][ EndPlayStep =>
          LET e == events'[Len(events')]
              score == e.data.score
              before == CHOOSE st \in memGameState[e.gameId] \cup
                                      (IF memGameState[e.gameId] = {}
                                       THEN {DEFAULT_GAME_STATE} ELSE {}) : TRUE
              after == CHOOSE st \in memGameState'[e.gameId] : TRUE
          IN  /\ after.totalPlays = before.totalPlays + 1
              /\ after.highScore = IF score = NoScore THEN before.highScore
                                   ELSE Max(before.highScore, score)
              /\ after.highScore >= before.highScore
              /\ Cardinality(FiredOf(PLAY_ENDED)) = 1 ]_vars

\* an endPlay that locked, with a score below the stored high score
C24_Witness ==
    /\ Len(events) = 2
    /\ events[1].event = LOCKED
    /\ events[2].event = PLAY_ENDED
    /\ events[2].data.score # NoScore
    /\ events[2].data.score < getGameState(events[2].gameId).highScore


\* C25: isLineMeaningful returns false for every line that is empty or is
\* white space only, for every language identifier, unknown ones included.
C25_BlankLinesNotMeaningful ==
    (returned.fn = "isLineMeaningful" /\ \A i \in 1..Len(returned.line) :
                                            IsSpace(returned.line[i]))
    => returned.value = FALSE


\* the line starts with a comment marker of the family of languageId
IsCommentLine(line, languageId) ==
    \/ /\ languageId \in CFamilyIds
       /\ \/ startsWith(line, <<"/", "/">>)
          \/ startsWith(line, <<"/", "*">>)
          \/ startsWith(line, <<"*">>)
    \/ languageId \in HashFamilyIds /\ startsWith(line, <<"#">>)
    \/ languageId \in MarkupIds /\ startsWith(line, <<"<", "!", "-", "-">>)
    \/ languageId \in StyleIds /\ startsWith(line, <<"/", "*">>)

\* C26: a comment line is never meaningful for its language family (//, /*
\* or * for the C family, # for the Python/shell family, <!-- for markup, /*
\* for style sheets), and countMeaningfulLines counts none of them, indented
\* or not.
C26_CommentLinesNotMeaningful ==
    /\ ( returned.fn = "isLineMeaningful"
         /\ IsCommentLine(returned.line, returned.languageId) )
       => returned.value = FALSE
    /\ returned.fn = "countMeaningfulLines"
       => returned.value <=
             Cardinality({ i \in 1..Len(returned.lines) :
                             ~IsCommentLine(trim(returned.lines[i]),
                                            returned.languageId) })

\* an indented comment line and a line of code were counted as one
C26_Witness ==
    /\ returned.fn = "countMeaningfulLines"
    /\ Len(returned.lines) = 2
    /\ returned.lines[1] # << >>
    /\ IsSpace(returned.lines[1][1])
    /\ IsCommentLine(trim(returned.lines[1]), returned.languageId)
    /\ returned.lines[2] = <<"x">>
    /\ returned.value = 1


\* the line is one of the characters { } [ ] ( ) ; , and nothing else
IsLonePunctuation(line) == Len(line) = 1 /\ line[1] \in Punctuation

\* C27: for every language identifier a trimmed line that is a single one of
\* { } [ ] ( ) ; , is not meaningful; and for an unknown identifier every
\* non-blank line that is not such a lone character is meaningful, comment
\* markers included.
C27_LonePunctuationNotMeaningful ==
    /\ (returned.fn = "isLineMeaningful" /\ IsLonePunctuation(returned.line))
       => returned.value = FALSE
    /\ ( returned.fn = "isLineMeaningful"
         /\ returned.languageId = UnknownId
         /\ trim(returned.line) # << >>
         /\ ~IsLonePunctuation(trim(returned.line)) )
       => returned.value = TRUE
    /\ returned.fn = "countMeaningfulLines"
       => LET counted == { i \in 1..Len(returned.lines) :
                             /\ trim(returned.lines[i]) # << >>
                             /\ ~IsLonePunctuation(trim(returned.lines[i])) }
          IN  /\ returned.value <= Cardinality(counted)
              /\ returned.languageId = UnknownId
                 => returned.value = Cardinality(counted)

\* under an unknown identifier a line starting with a comment marker was
\* classified as meaningful
C27_Witness ==
    /\ returned.fn = "isLineMeaningful"
    /\ returned.languageId = UnknownId
    /\ startsWith(returned.line, <<"/", "/">>)
    /\ returned.value = TRUE


\* the lines of a text: one more than its line breaks
lineCount(text) == 1 + Cardinality({ i \in 1..Len(text) : text[i] = NL })

\* C28: for every pair of texts calculateLineChanges returns linesAdded =
\* max(0, newLineCount - oldLineCount) and linesDeleted = max(0, oldLineCount
\* - newLineCount): both are >= 0, at most one of them is not zero, and their
\* difference is the difference of the line counts.
C28_AddedAndDeletedFollowLineCounts ==
    returned.fn = "calculateLineChanges" =>
        LET oldLineCount == lineCount(returned.oldContent)
            newLineCount == lineCount(returned.newContent)
            change == returned.value
        IN  /\ change.linesAdded = Max(0, newLineCount - oldLineCount)
            /\ change.linesDeleted = Max(0, oldLineCount - newLineCount)
            /\ change.linesAdded >= 0
            /\ change.linesDeleted >= 0
            /\ change.linesAdded = 0 \/ change.linesDeleted = 0
            /\ change.linesAdded - change.linesDeleted = newLineCount - oldLineCount

\* a text of two lines was compared with a text of one
C28_Witness ==
    /\ returned.fn = "calculateLineChanges"
    /\ lineCount(returned.oldContent) = 2
    /\ lineCount(returned.newContent) = 1
    /\ returned.value.linesDeleted = 1
    /\ returned.value.linesAdded = 0

\* the meaningful lines of a text for a language, counted line by line
meaningfulLinesOf(text, languageId) ==
    LET lines == split(text)
    IN  Cardinality({ i \in 1..Len(lines) :
                        /\ trim(lines[i]) # << >>
                        /\ ~IsLonePunctuation(trim(lines[i]))
                        /\ ~IsCommentLine(trim(lines[i]), languageId) })

\* C29: the netChange reported follows the configuration: counting
\* meaningful lines only it is meaningfulCount(new) - meaningfulCount(old),
\* so adding only comment or blank lines gives netChange 0 and isMeaningful
\* false; otherwise it is the difference of the line counts; and in both
\* modes isMeaningful is true exactly when the meaningful difference is > 0.
C29_NetChangeFollowsConfig ==
    returned.fn = "calculateLineChanges" =>
        LET change == returned.value
            meaningfulDifference ==
                meaningfulLinesOf(returned.newContent, returned.languageId)
                  - meaningfulLinesOf(returned.oldContent, returned.languageId)
            rawDifference == lineCount(returned.newContent)
                               - lineCount(returned.oldContent)
        IN  /\ change.netChange =
                  IF trackerConfig.unlock.countMeaningfulLinesOnly
                  THEN meaningfulDifference ELSE rawDifference
            /\ change.isMeaningful <=> meaningfulDifference > 0

\* counting meaningful lines only, a comment line was added to a line of code
C29_Witness ==
    /\ returned.fn = "calculateLineChanges"
    /\ trackerConfig.unlock.countMeaningfulLinesOnly
    /\ returned.languageId = "typescript"
    /\ returned.oldContent = <<"x">>
    /\ returned.newContent = <<"x", NL, "/", "/">>
    /\ returned.value.netChange = 0
    /\ ~returned.value.isMeaningful
    /\ returned.value.linesAdded = 1


\* C30: import is all or nothing: when importData fails (the text is not
\* JSON, or a write is rejected part-way through) it reports an error and the
\* store is exactly as it was before the call, no key written.
C30_FailedImportWritesNothing ==
    [][ (\E f \in failure' : f.op = "importData")
          => UNCHANGED <<memGameState, memGlobalPlayState, memTotalLines, memConfig>> ]_vars


\* C31: exportData followed by clearAllData and importData of the exported
\* text restores every key of the extension to its exported value: the store
\* (game states, total lines written, play state, configuration) is the one
\* exportData read; and importData writes no key outside the namespace.
C31_ExportImportRoundTrip ==
    [][ /\ ( storageLog.phase = "cleared" /\ ImportData(storageLog.text, 0) )
           => /\ StoredAll' = storageLog.store
              /\ \A i \in 1..Len(storageLog.text.entries) :
                    LET e == storageLog.text.entries[i]
                    IN  slotOf(StoredAll', e.key) = {jsValue(e.value)}
        /\ \A i \in 1..Len(storageLog'.written) :
              startsWithCodeToPlay(storageLog'.written[i]) ]_vars

\* a store holding a game's statistics and a total went through the round trip
C31_Witness ==
    /\ storageLog.phase = "imported"
    /\ storageLog.store.game["debug-snake"] # {}
    /\ storageLog.store.total \notin {{}, {0}}
    /\ Len(storageLog.written) >= 2
    /\ StoredAll = storageLog.store


\* C32: every delta handled adds exactly its netChange to the total lines
\* written, whether the engine is Locked or Unlocked, so the total is the sum
\* of the deltas handled since it was set, and handling a delta never
\* decreases it.
C32_TotalLinesSumsDeltas ==
    [][ DeltaStep =>
          LET netChange == events'[Len(events')].data.netChange
          IN  /\ getTotalLinesWritten' = getTotalLinesWritten + netChange
              /\ getTotalLinesWritten' >= getTotalLinesWritten ]_vars

\* a delta was handled while Unlocked and the total holds it
C32_Witness ==
    /\ Len(events) = 1
    /\ events[1].event = CODE_WRITTEN
    /\ getGlobalPlayState.isUnlocked
    /\ getTotalLinesWritten >= 2
    /\ getGlobalPlayState.linesWritten = 0


\* C33: registering a game id whose state is already stored leaves the
\* stored highScore and totalPlays and the play state (isUnlocked,
\* playsRemaining, linesWritten) as they were, and the catalog holds the new
\* record for the id.
C33_RegistrationKeepsStoredState ==
    [][ \A game \in Games :
          (memGameState[game.id] # {} /\ registerGame(game))
            => /\ memGameState' = memGameState
               /\ getGameState(game.id)' = getGameState(game.id)
               /\ memGlobalPlayState' = memGlobalPlayState
               /\ getGlobalPlayState' = getGlobalPlayState
               /\ catalog'[game.id] = {game}
               /\ game.id \in games' ]_vars

\* the game was registered again, under its other name, after two plays
C33_Witness ==
    /\ events = << >>
    /\ catalog["debug-snake"] = {IGame("debug-snake", "Debug Snake II")}
    /\ memGameState["debug-snake"] # {}
    /\ getGameState("debug-snake").totalPlays = 2
    /\ getGameState("debug-snake").highScore = 1
    /\ memGlobalPlayState # {}


\* C34: with playsPerUnlock > 0 and initial play credits > 0, no state
\* reached through registerGame, attemptPlay, endPlay, delta handling,
\* unlockGame and lockGame is Unlocked with playsRemaining <= 0, and from
\* every such state a long enough run of accepted deltas leads to a state in
\* which attemptPlay of a registered game succeeds.
C34_NoDeadEnd ==
    ( config.unlock.playsPerUnlock > 0 /\ DEFAULT_GLOBAL_PLAY_STATE.playsRemaining > 0 )
      => /\ ~( getGlobalPlayState.isUnlocked /\ getGlobalPlayState.playsRemaining <= 0 )
         /\ LET after == afterDeltas(getGlobalPlayState, config.unlock.linesToUnlock)
            IN  after.isUnlocked /\ after.playsRemaining > 0

\* the last credit was played, then one more play ended: Locked, in debt,
\* and a line short of the threshold
C34_Witness ==
    /\ config.unlock.playsPerUnlock > 0
    /\ games # {}
    /\ ~getGlobalPlayState.isUnlocked
    /\ getGlobalPlayState.playsRemaining < 0
    /\ getGlobalPlayState.linesWritten = config.unlock.linesToUnlock - 1


\* C35: while the configuration is not changed, every Locked state has
\* 0 <= linesWritten < linesToUnlock; so getRemainingLinesToUnlock is > 0
\* exactly when Locked and 0 when Unlocked, and getUnlockProgress is within
\* [0, 100] and is 100 only when Unlocked.
C35_LockedProgressBelowThreshold ==
    LET globalState == getGlobalPlayState
        progress == getUnlockProgress
    IN  /\ ~globalState.isUnlocked
           => /\ 0 <= globalState.linesWritten
              /\ globalState.linesWritten < config.unlock.linesToUnlock
        /\ getRemainingLinesToUnlock > 0 <=> ~globalState.isUnlocked
        /\ globalState.isUnlocked => getRemainingLinesToUnlock = 0
        /\ 0 <= progress[1]
        /\ progress[1] <= 100 * progress[2]
        /\ progress[1] = 100 * progress[2] => globalState.isUnlocked

\* a delta left the engine Locked a line short of the threshold
C35_Witness ==
    /\ ~getGlobalPlayState.isUnlocked
    /\ getGlobalPlayState.linesWritten = config.unlock.linesToUnlock - 1
    /\ getRemainingLinesToUnlock = 1
    /\ getUnlockProgress[1] > 0
    /\ events # << >>
    /\ events[Len(events)].event = CODE_WRITTEN


\* the lines a step fired, summed over its changes
RECURSIVE firedLines(_)
firedLines(changes) ==
    IF changes = << >> THEN 0 ELSE Head(changes).netChange + firedLines(Tail(changes))

\* C36: every comparison replaces the cache entry with the text compared,
\* also when it fires nothing, and what it fires is the increase of the
\* meaningful-line count from the cached text to the new one, nothing for a
\* decrease: over a sequence of processed texts the fired lines sum to the
\* positive step-to-step increases, so k lines deleted and added again are k
\* lines fired.
C36_FiredLinesSumIncreases ==
    [][ \A d \in Docs : \A A \in documentCache[d] :
          ( Processed(d) /\ trackerConfig.unlock.countMeaningfulLinesOnly )
          => /\ documentCache'[d] = {docText[d]}
             /\ firedLines(codeWritten') =
                   Max(0, meaningfulCount(docText[d], d.languageId)
                            - meaningfulCount(A, d.languageId)) ]_vars


\* C37: every reader applies the unlock policy to the same state: whenever
\* the status bar is updated, what it shows for the tracked game agrees with
\* the engine: it shows the game Locked exactly when isGameUnlocked is false,
\* and the plays it shows are getPlaysRemaining.
C37_StatusBarAgreesWithEngine ==
    [][ (CreateStatusBar \/ StatusBarOnGameEvent \/ StatusBarTimer)
          => \A item \in statusBarItem' :
                item.status # "noGames"
                  => /\ item.status = "locked" <=> ~isGameUnlocked'
                     /\ item.status = "unlocked"
                          => item.playsRemaining = {getPlaysRemaining'} ]_vars


\* C38: a unit that is untitled or outside the tracking scope never enters
\* the pipeline: neither its change signal nor its save signal creates a cache
\* entry, starts or cancels a timer, or fires a delta; without trackAllFiles
\* a unit is in scope exactly when its file name ends with a tracked
\* extension, and with trackAllFiles every titled unit is in scope.
C38_UntrackedUnitsStayOut ==
    [][ \A d \in AllDocs :
          /\ shouldTrackDocument(d)
                <=> ( trackerConfig.trackAllFiles
                      \/ \E ext \in trackerConfig.trackedExtensions :
                             endsWith(d.fileName, ext) )
          /\ ( /\ lastSignal' \in {Signal("change", d), Signal("save", d)}
               /\ (d.isUntitled \/ ~shouldTrackDocument(d)) )
             => /\ documentCache' = documentCache
                /\ debounceTimer' = debounceTimer
                /\ codeWritten' = << >> ]_vars


\* C39: the snake never reverses between two consecutive updates: whatever
\* arrow keys are handled between them, the velocity an update applies is
\* not the exact opposite of the velocity the update before it applied.
C39_SnakeNeverReverses ==
    [][ snakeTicks' # snakeTicks
          => \A before \in appliedVelocity : \A after \in appliedVelocity' :
                before # <<0, 0>> => after # <<0 - before[1], 0 - before[2]>> ]_vars

====
